---- MODULE Spec2Model ----
(***************************************************************************)
(* Session layer of dicedb-rs: connect, handshake, reconnect-on-write-     *)
(* failure, execute (send + receive), watch registration and teardown.     *)
(*                                                                         *)
(* The program is synchronous: one caller, one call stack.  `stack` holds  *)
(* the activation records of the functions of stream.rs / commandstream.rs *)
(* / watchstream.rs / watchrpc.rs / client.rs that are currently running,  *)
(* innermost last.  The network and the server are the environment: every  *)
(* write, connect and read picks one of the outcomes the operating system  *)
(* or the peer can produce.                                                *)
(***************************************************************************)
EXTENDS Integers, Sequences, FiniteSets, TLC

VARIABLES
    sess,     \* the two sessions of the program: "cmd" (Client.command_client) and "ws" (a WatchStream)
    conns,    \* every TCP connection opened so far, by index: what was written on it, how many replies were read
    stack,    \* call stack, innermost activation last
    ret,      \* result of the call that returned last
    client,   \* what the caller holds: "none", "ready" (Client::new returned Ok), "failed", "bare" (CommandStream::new only)
    ncalls    \* number of API calls the caller has made

vars == <<sess, conns, stack, ret, client, ncalls>>

-----------------------------------------------------------------------------
(* Bounds of the model *)

MaxConns == 3
MaxCalls == 2
MaxTries == 2
MaxSteps == 2
MaxEntries == 2
MaxReads == 2
MaxKeys == 2
MaxDels == 1
MaxSets == 2
MaxInbox == 3

(* stream.rs:101 and client.rs:123: send_command reconnects with 10 tries *)
SendReconnectTries == 10

-----------------------------------------------------------------------------
(* Values, errors, results *)

NoValue == [t |-> "none", s |-> "", i |-> 0]
VStr(x) == [t |-> "VStr", s |-> x, i |-> 0]
VInt(n) == [t |-> "VInt", s |-> "", i |-> n]
VFloat(n) == [t |-> "VFloat", s |-> "", i |-> n]
VNull == [t |-> "VNull", s |-> "", i |-> 0]

NoError == [type |-> "none", msg |-> "", val |-> NoValue]
IoError(m) == [type |-> "IoError", msg |-> m, val |-> NoValue]
DecodeError == [type |-> "DecodeError", msg |-> "", val |-> NoValue]
ServerError(m) == [type |-> "ServerError", msg |-> m, val |-> NoValue]
WatchValueExpectationError(m) ==
    [type |-> "WatchValueExpectationError", msg |-> m, val |-> NoValue]

(* the result of a call: who returned, Ok(val) or Err(err), and the        *)
(* activation record as it was when the call returned                      *)
NoFrame == [fn |-> "none"]
NoRet == [by |-> "none", ok |-> TRUE, val |-> NoValue, err |-> NoError, frame |-> NoFrame]
Ok(f, v) == [by |-> f.fn, ok |-> TRUE, val |-> v, err |-> NoError, frame |-> f]
Err(f, e) == [by |-> f.fn, ok |-> FALSE, val |-> NoValue, err |-> e, frame |-> f]

-----------------------------------------------------------------------------
(* Wire format: what one read() can deliver.  `valid` is whether the bytes *)
(* parse as a wire::Response; the payload kinds are those of               *)
(* wire::response::Value; `attrs` is the optional metadata struct, whose   *)
(* fields map a name to a value of some kind; `v_ss_map` is the            *)
(* string-to-string map.                                                   *)

EmptyMap == [x \in {} |-> ""]
NoAttrs == [some |-> FALSE, fields |-> EmptyMap]
Attrs(fields) == [some |-> TRUE, fields |-> fields]
StringValue(x) == [kind |-> "StringValue", s |-> x]
NumberValue == [kind |-> "NumberValue", s |-> ""]
NoKind == [kind |-> "None", s |-> ""]

NoPayload == [k |-> "None", s |-> "", i |-> 0]
Payloads ==
    { [k |-> "VNil", s |-> "", i |-> 0],
      [k |-> "VInt", s |-> "", i |-> 7],
      [k |-> "VStr", s |-> "OK", i |-> 0],
      [k |-> "VStr", s |-> "ERR", i |-> 0],
      [k |-> "VFloat", s |-> "", i |-> 1],
      [k |-> "VBytes", s |-> "OK", i |-> 0] }

Response(err, value, attrs, v_ss_map) ==
    [valid |-> TRUE, err |-> err, value |-> value, attrs |-> attrs, v_ss_map |-> v_ss_map]

Garbage == [valid |-> FALSE, err |-> "", value |-> NoPayload, attrs |-> NoAttrs,
            v_ss_map |-> EmptyMap]
EmptyBytes == Response("", NoPayload, NoAttrs, EmptyMap)

ServerFrames ==
    { Garbage, EmptyBytes, Response("ERR wrong type", NoPayload, NoAttrs, EmptyMap) }
    \cup { Response("", p, NoAttrs, EmptyMap) : p \in Payloads }

(* impl Into<ScalarValue> for wire::response::Value *)
PayloadIntoScalar(p) ==
    CASE p.k = "VNil" -> VNull
      [] p.k = "VInt" -> VInt(p.i)
      [] p.k = "VStr" -> VStr(p.s)
      [] p.k = "VFloat" -> VFloat(p.i)
      [] p.k = "VBytes" -> VStr(p.s)

(* ScalarValue_decode that looks at the payload before the error string *)
ScalarValue_decode_value_first(b) ==
    IF b.valid
    THEN IF b.value.k # "None"
         THEN [ok |-> TRUE, val |-> PayloadIntoScalar(b.value), err |-> NoError]
         ELSE IF b.err = ""
              THEN [ok |-> TRUE, val |-> VNull, err |-> NoError]
              ELSE [ok |-> FALSE, val |-> NoValue, err |-> ServerError(b.err)]
    ELSE [ok |-> FALSE, val |-> NoValue, err |-> DecodeError]

(* ScalarValue::decode: result record [ok, val, err] *)
ScalarValue_decode(b) ==
    IF b.valid
    THEN IF b.err = ""
         THEN IF b.value.k # "None"
              THEN [ok |-> TRUE, val |-> PayloadIntoScalar(b.value), err |-> NoError]
              ELSE [ok |-> TRUE, val |-> VNull, err |-> NoError]
         ELSE [ok |-> FALSE, val |-> NoValue, err |-> ServerError(b.err)]
    ELSE [ok |-> FALSE, val |-> NoValue, err |-> DecodeError]

(* WatchValue::decode_watchvalue: result record [ok, val, err], val the    *)
(* WatchValue                                                              *)
WatchValue(value, fingerprint) == [t |-> "WatchValue", value |-> value, fingerprint |-> fingerprint]

(* decode_watchvalue that takes a fingerprint of any kind *)
decode_watchvalue_anykind(b) ==
    LET Fail(e) == [ok |-> FALSE, val |-> NoValue, err |-> e]
    IN  IF ~b.valid THEN Fail(DecodeError)
        ELSE IF b.err # "" THEN Fail(ServerError(b.err))
        ELSE IF ~b.attrs.some
             THEN Fail(WatchValueExpectationError("Missing attributes from response"))
        ELSE IF "fingerprint" \notin DOMAIN b.attrs.fields
             THEN Fail(WatchValueExpectationError("Missing fingerprint from attributes"))
        ELSE IF b.attrs.fields["fingerprint"].kind = "None"
             THEN Fail(WatchValueExpectationError("Missing kind from fingerprint attribute"))
        ELSE IF b.value.k = "None"
             THEN Fail(WatchValueExpectationError("Missing value from response"))
        ELSE [ok |-> TRUE,
              val |-> WatchValue(PayloadIntoScalar(b.value), b.attrs.fields["fingerprint"].s),
              err |-> NoError]

(* decode_watchvalue that looks for the fingerprint before it looks at the *)
(* error string                                                            *)
decode_watchvalue_fingerprint_first(b) ==
    LET Fail(e) == [ok |-> FALSE, val |-> NoValue, err |-> e]
    IN  IF ~b.valid THEN Fail(DecodeError)
        ELSE IF ~b.attrs.some
             THEN Fail(WatchValueExpectationError("Missing attributes from response"))
        ELSE IF "fingerprint" \notin DOMAIN b.attrs.fields
             THEN Fail(WatchValueExpectationError("Missing fingerprint from attributes"))
        ELSE IF b.attrs.fields["fingerprint"].kind = "None"
             THEN Fail(WatchValueExpectationError("Missing kind from fingerprint attribute"))
        ELSE IF b.attrs.fields["fingerprint"].kind # "StringValue"
             THEN Fail(WatchValueExpectationError("Fingerprint is not a string"))
        ELSE IF b.err # "" THEN Fail(ServerError(b.err))
        ELSE IF b.value.k = "None"
             THEN Fail(WatchValueExpectationError("Missing value from response"))
        ELSE [ok |-> TRUE,
              val |-> WatchValue(PayloadIntoScalar(b.value), b.attrs.fields["fingerprint"].s),
              err |-> NoError]

decode_watchvalue(b) ==
    LET Fail(e) == [ok |-> FALSE, val |-> NoValue, err |-> e]
    IN  IF ~b.valid THEN Fail(DecodeError)
        ELSE IF b.err # "" THEN Fail(ServerError(b.err))
        ELSE IF ~b.attrs.some
             THEN Fail(WatchValueExpectationError("Missing attributes from response"))
        ELSE IF "fingerprint" \notin DOMAIN b.attrs.fields
             THEN Fail(WatchValueExpectationError("Missing fingerprint from attributes"))
        ELSE IF b.attrs.fields["fingerprint"].kind = "None"
             THEN Fail(WatchValueExpectationError("Missing kind from fingerprint attribute"))
        ELSE IF b.attrs.fields["fingerprint"].kind # "StringValue"
             THEN Fail(WatchValueExpectationError("Fingerprint is not a string"))
        ELSE IF b.value.k = "None"
             THEN Fail(WatchValueExpectationError("Missing value from response"))
        ELSE [ok |-> TRUE,
              val |-> WatchValue(PayloadIntoScalar(b.value), b.attrs.fields["fingerprint"].s),
              err |-> NoError]

(* HSetValue::decode: result record [ok, val, err], val the HSetValue *)
HSetValue(fields) == [t |-> "HSetValue", fields |-> fields]

(* HSetValue_decode that takes a response without map entries for an error *)
HSetValue_decode_nonempty(b) ==
    IF b.valid
    THEN IF b.err = "" /\ DOMAIN b.v_ss_map # {}
         THEN [ok |-> TRUE, val |-> HSetValue(b.v_ss_map), err |-> NoError]
         ELSE [ok |-> FALSE, val |-> NoValue, err |-> ServerError(b.err)]
    ELSE [ok |-> FALSE, val |-> NoValue, err |-> DecodeError]

HSetValue_decode(b) ==
    IF b.valid
    THEN IF b.err = ""
         THEN [ok |-> TRUE, val |-> HSetValue(b.v_ss_map), err |-> NoError]
         ELSE [ok |-> FALSE, val |-> NoValue, err |-> ServerError(b.err)]
    ELSE [ok |-> FALSE, val |-> NoValue, err |-> DecodeError]

(* Value::decode_response of the CommandClient of client.rs *)
Value_decode_response(b) ==
    IF ~b.valid
    THEN [ok |-> FALSE, val |-> NoValue, err |-> DecodeError]
    ELSE IF b.err # ""
         THEN [ok |-> FALSE, val |-> NoValue, err |-> ServerError(b.err)]
         ELSE IF b.value.k = "None"
              THEN [ok |-> TRUE, val |-> VNull, err |-> NoError]
              ELSE [ok |-> TRUE, val |-> PayloadIntoScalar(b.value), err |-> NoError]

-----------------------------------------------------------------------------
(* The bytes of a response.  A wire::Response is encoded as a sequence of  *)
(* fields, each with its tag and length in front: the error string, the    *)
(* payload (one member of the `value` oneof), the attrs struct, and one    *)
(* field per entry of v_ss_map.  A byte is written as the field it belongs *)
(* to and its position in that field.                                      *)

FErr(m) == [f |-> "err", key |-> "", s |-> m, p |-> NoPayload, a |-> EmptyMap]
FValue(p) == [f |-> "value", key |-> "", s |-> "", p |-> p, a |-> EmptyMap]
FAttrs(fields) == [f |-> "attrs", key |-> "", s |-> "", p |-> NoPayload, a |-> fields]
FEntry(k, v) == [f |-> "v_ss_map", key |-> k, s |-> v, p |-> NoPayload, a |-> EmptyMap]
FInvalid == [f |-> "invalid", key |-> "", s |-> "", p |-> NoPayload, a |-> EmptyMap]

(* the encoded length of a field: tag and content, a length byte in front  *)
(* of the content of the length-delimited ones                             *)
FieldLen(fld) == IF fld.f \in {"value", "invalid"} THEN 2 ELSE 3

FieldBytes(fld) == [k \in 1..FieldLen(fld) |-> [fld |-> fld, k |-> k]]

RECURSIVE Encode(_)
Encode(msg) == IF msg = <<>> THEN <<>> ELSE FieldBytes(Head(msg)) \o Encode(Tail(msg))

(* merging one decoded field into the message: a later value replaces an   *)
(* earlier one, a map entry is added to the map                            *)
MergeField(r, fld) ==
    CASE fld.f = "err" -> [r EXCEPT !.err = fld.s]
      [] fld.f = "value" -> [r EXCEPT !.value = fld.p]
      [] fld.f = "attrs" ->
            [r EXCEPT !.attrs = Attrs([n \in DOMAIN r.attrs.fields \cup DOMAIN fld.a |->
                                          IF n \in DOMAIN fld.a THEN fld.a[n]
                                          ELSE r.attrs.fields[n]])]
      [] fld.f = "v_ss_map" ->
            [r EXCEPT !.v_ss_map = [n \in DOMAIN r.v_ss_map \cup {fld.key} |->
                                       IF n = fld.key THEN fld.s ELSE r.v_ss_map[n]]]

(* wire::Response::decode(bytes): fields are decoded one after the other   *)
(* until the bytes end; bytes that end inside a field, or that do not      *)
(* start a field, are a decode error; no bytes are the default message     *)
RECURSIVE DecodeFields(_, _, _)
DecodeFields(bytes, i, r) ==
    IF i > Len(bytes) THEN r
    ELSE LET b == bytes[i]
         IN  IF \/ b.k # 1
                \/ b.fld.f = "invalid"
                \/ i + FieldLen(b.fld) - 1 > Len(bytes)
             THEN Garbage
             ELSE DecodeFields(bytes, i + FieldLen(b.fld), MergeField(r, b.fld))

Response_decode(bytes) == DecodeFields(bytes, 1, EmptyBytes)

(* what a server can send as one response *)
EntryName(i) == CASE i = 1 -> "f1" [] i = 2 -> "f2" [] i = 3 -> "f3" [] OTHER -> "f4"

ErrParts == { <<>>, <<FErr("ERR wrong type")>> }
ValueParts == { <<>> } \cup { <<FValue(p)>> : p \in Payloads }
AttrsParts ==
    { <<>>, <<FAttrs(EmptyMap)>>,
      <<FAttrs([n \in {"fingerprint"} |-> StringValue("k")])>>,
      <<FAttrs([n \in {"fingerprint"} |-> NumberValue])>>,
      <<FAttrs([n \in {"fingerprint"} |-> NoKind])>> }
MapParts == { [i \in 1..n |-> FEntry(EntryName(i), "v")] : n \in 0..MaxEntries }

ServerMessages ==
    { <<FInvalid>> }
    \cup { e \o v \o a \o m : e \in ErrParts, v \in ValueParts, a \in AttrsParts, m \in MapParts }

-----------------------------------------------------------------------------
(* Commands as encoded by impl Into<wire::Command> for Command *)

Keys == {"k"}

(* Uuid::new_v4(): the n-th identifier generated is different from the others *)
Uuid_new_v4(n) == IF n = 1 THEN "uuid-1" ELSE "uuid-2"

(* ExecutionMode::as_arg *)
ExecutionMode_as_arg(m) == IF m = "Command" THEN "command" ELSE "watch"

HANDSHAKE(client_id, execution_mode) ==
    [cmd |-> "HANDSHAKE", args |-> <<client_id, ExecutionMode_as_arg(execution_mode)>>]
GET(key) == [cmd |-> "GET", args |-> <<key>>]
GETWATCH(key) == [cmd |-> "GET.WATCH", args |-> <<key>>]
UNWATCH(key) == [cmd |-> "UNWATCH", args |-> <<key>>]
NoCmd == [cmd |-> "", args |-> <<>>]

UserCommands == { GET(k) : k \in Keys }

-----------------------------------------------------------------------------
(* Sessions and connections *)

None == [some |-> FALSE, key |-> ""]
Some(k) == [some |-> TRUE, key |-> k]

(* the address a Client is built for *)
Host == "localhost"
Port == 7379

(* a session: a CommandStream, a WatchStream or the CommandClient of       *)
(* client.rs.  `yielded` is the history of a WatchStream's iteration: what *)
(* each call of next() returned, "Some" or "None".                         *)
NoSession == [kind |-> "none", id |-> "", sock |-> 0, fingerprint |-> None,
              host |-> "", port |-> 0, yielded |-> <<>>]

(* a connection just opened by session s.  `inbox` is used where reads are *)
(* modelled byte by byte: the bytes that have arrived and were not read;   *)
(* `noframe` records that a read on the connection returned an error or    *)
(* zero bytes instead of a response frame; `peer` is what the other end    *)
(* has done with the connection, where that is modelled as an event:       *)
(* "open", "closed" (it shut the connection down) or "reset".              *)
NewConn(s) == [owner |-> s, written |-> <<>>, nread |-> 0, hsok |-> FALSE, inbox |-> <<>>,
               noframe |-> FALSE, peer |-> "open"]

Top == stack[Len(stack)]
Rest == SubSeq(stack, 1, Len(stack) - 1)
Running(fn, pc) == Len(stack) > 0 /\ Top.fn = fn /\ Top.pc = pc
Idle == stack = <<>>

Init ==
    /\ sess = [s \in {"cmd", "ws"} |-> NoSession]
    /\ conns = <<>>
    /\ stack = <<>>
    /\ ret = NoRet
    /\ client = "none"
    /\ ncalls = 0


-----------------------------------------------------------------------------
(* Activation records.  Besides the program counter and the arguments, a   *)
(* record keeps what its call has done so far (write outcomes, sockets     *)
(* written to, connection attempts, the reply it got).                     *)

Brief(r) == [ok |-> r.ok, val |-> r.val, err |-> r.err]
NoReply == [ok |-> FALSE, val |-> NoValue, err |-> NoError]
NoRead == [io |-> "none", bytes |-> Garbage]
NoSend == [called |-> FALSE, ok |-> FALSE, outs |-> <<>>, wsocks |-> <<>>, rc |-> 0]

SendFrame(s, c) ==
    [fn |-> "send_command", pc |-> "write", s |-> s, cmd |-> c,
     outs |-> <<>>,       \* outcome of each write of the command, in order
     wsocks |-> <<>>,     \* the connection each write went to
     rc |-> 0,            \* calls of reconnect
     rcres |-> "none",    \* what reconnect returned: "ok" or "err"
     rcfails |-> 0]       \* failed connection attempts of that reconnect
ExecFrame(s, c) ==
    [fn |-> "execute", pc |-> "send", s |-> s, cmd |-> c,
     send |-> NoSend,     \* what its send_command did
     rd |-> 0,            \* reads
     got |-> NoRead]      \* what the read delivered
HandshakeFrame(s) ==
    [fn |-> "handshake", pc |-> "call", s |-> s, reply |-> NoReply]
ReconnectFrame(s, m) ==
    [fn |-> "reconnect", pc |-> "loop", s |-> s, max |-> m, tries |-> 0,
     conns |-> 0,         \* connection attempts made while this call is running
     fails |-> 0,         \* failed attempts of its own loop
     sock0 |-> sess[s].sock, id0 |-> sess[s].id, nconn0 |-> Len(conns),
     s0 |-> sess[s],      \* the session as it was when reconnect was called
     hs |-> NoReply]      \* the reply its handshake got
DropFrame(r) ==
    [fn |-> "drop", pc |-> "start", s |-> "ws", pending |-> r,
     sock0 |-> sess["ws"].sock, nconn0 |-> Len(conns), fp0 |-> sess["ws"].fingerprint,
     unwatch |-> NoSend, cmd |-> NoCmd]

Return(r) == stack' = Rest /\ ret' = r
Call(caller, callee) == stack' = Rest \o <<caller, callee>> /\ ret' = NoRet

(* ModeOf that gives every session the command mode *)
ModeOf_command(kind) == "Command"

(* the handshake mode of a session: commandstream.rs:52, watchstream.rs:102, client.rs:87 *)
ModeOf(kind) == IF kind = "WatchStream" THEN "Watch" ELSE "Command"

-----------------------------------------------------------------------------
(* The environment: outcomes of connect, write and read *)

ConnectOutcomes == IF Len(conns) < MaxConns THEN {"ok", "refused"} ELSE {"refused"}
WriteOutcomes == {"ok", "failed"}

(* one read(): an I/O error, zero bytes (the peer closed), or the next     *)
(* response frame when a request written on the connection is unanswered   *)
ReadOutcomes(c) ==
    { [io |-> "error", bytes |-> Garbage], [io |-> "eof", bytes |-> EmptyBytes] }
    \cup (IF conns[c].nread < Len(conns[c].written)
          THEN { [io |-> "data", bytes |-> b] : b \in ServerFrames }
          ELSE {})

Written(c, cmd) == [conns EXCEPT ![c].written = Append(@, cmd)]
Consumed(c, o) ==
    IF o.io = "data"
    THEN [conns EXCEPT ![c].nread = @ + 1]
    ELSE [conns EXCEPT ![c].noframe = TRUE]

-----------------------------------------------------------------------------
(* CommandExecutor::execute_scalar_command (stream.rs:110-113);            *)
(* CommandClient::execute_command (client.rs:118-132) has the same steps   *)

ExecSend ==
    /\ Running("execute", "send")
    /\ Call([Top EXCEPT !.pc = "recv"], SendFrame(Top.s, Top.cmd))
    /\ UNCHANGED <<sess, conns, client, ncalls>>

SendOf(r) == [called |-> TRUE, ok |-> r.ok, outs |-> r.frame.outs,
              wsocks |-> r.frame.wsocks, rc |-> r.frame.rc]

(* `self.send_command(command)?` *)
ExecSendFailed ==
    /\ Running("execute", "recv")
    /\ ret.by = "send_command" /\ ~ret.ok
    /\ Return(Err([Top EXCEPT !.send = SendOf(ret)], ret.err))
    /\ UNCHANGED <<sess, conns, client, ncalls>>

(* the decoder a session kind uses for its reply *)
DecodeFor(kind, b) ==
    IF kind = "CommandClient" THEN Value_decode_response(b) ELSE ScalarValue_decode(b)

(* receive_scalar_value (stream.rs:74-80): one read, then decode *)
ReceiveResult(f, kind, o) ==
    IF o.io = "error"
    THEN Err(f, IoError("read"))
    ELSE LET d == DecodeFor(kind, o.bytes)
         IN  IF d.ok THEN Ok(f, d.val) ELSE Err(f, d.err)

(* ExecRecv that takes the reply of a HANDSHAKE for granted: it returns    *)
(* "OK" without reading, and the reply stays unread on the connection      *)
ExecRecv_noread ==
    /\ Running("execute", "recv")
    /\ ret.by = "send_command" /\ ret.ok
    /\ LET c == sess[Top.s].sock
       IN  IF Top.cmd.cmd = "HANDSHAKE"
           THEN /\ conns' = conns
                /\ Return(Ok([Top EXCEPT !.send = SendOf(ret)], VStr("OK")))
           ELSE \E o \in ReadOutcomes(c) :
                  /\ conns' = Consumed(c, o)
                  /\ Return(ReceiveResult([Top EXCEPT !.send = SendOf(ret), !.rd = @ + 1,
                                                      !.got = o],
                                          sess[Top.s].kind, o))
    /\ UNCHANGED <<sess, client, ncalls>>

(* ExecRecv with a retry on a failed read: the command is sent again *)
ExecRecv_resend ==
    /\ Running("execute", "recv")
    /\ ret.by = "send_command" /\ ret.ok
    /\ LET c == sess[Top.s].sock
       IN  \E o \in ReadOutcomes(c) :
             /\ conns' = Consumed(c, o)
             /\ IF o.io = "error"
                THEN Call([Top EXCEPT !.rd = @ + 1], SendFrame(Top.s, Top.cmd))
                ELSE Return(ReceiveResult([Top EXCEPT !.send = SendOf(ret), !.rd = @ + 1, !.got = o],
                                          sess[Top.s].kind, o))
    /\ UNCHANGED <<sess, client, ncalls>>

ExecRecv ==
    /\ Running("execute", "recv")
    /\ ret.by = "send_command" /\ ret.ok
    /\ LET c == sess[Top.s].sock
       IN  \E o \in ReadOutcomes(c) :
             /\ conns' = Consumed(c, o)
             /\ Return(ReceiveResult([Top EXCEPT !.send = SendOf(ret), !.rd = @ + 1, !.got = o],
                                     sess[Top.s].kind, o))
    /\ UNCHANGED <<sess, client, ncalls>>

-----------------------------------------------------------------------------
(* CommandSender::send_command (stream.rs:94-106) *)

SendWrite ==
    /\ Running("send_command", "write")
    /\ LET c == sess[Top.s].sock
       IN  \E o \in WriteOutcomes :
             LET f == [Top EXCEPT !.outs = Append(@, o), !.wsocks = Append(@, c)]
             IN  IF o = "ok"
                 THEN /\ conns' = Written(c, Top.cmd)
                      /\ Return(Ok(f, NoValue))
                 ELSE /\ conns' = conns
                      /\ Call([f EXCEPT !.pc = "reconnected", !.rc = @ + 1],
                              ReconnectFrame(Top.s, SendReconnectTries))
    /\ UNCHANGED <<sess, client, ncalls>>

(* SendReconnectFailed without the `?`: the error of reconnect is dropped   *)
(* and the command is written again                                        *)
SendReconnectFailed_ignored ==
    /\ Running("send_command", "reconnected")
    /\ ret.by = "reconnect" /\ ~ret.ok
    /\ LET c == sess[Top.s].sock
       IN  \E o \in WriteOutcomes :
             LET f == [Top EXCEPT !.outs = Append(@, o), !.wsocks = Append(@, c),
                                  !.rcres = "err", !.rcfails = ret.frame.fails]
             IN  IF o = "ok"
                 THEN /\ conns' = Written(c, Top.cmd)
                      /\ Return(Ok(f, NoValue))
                 ELSE /\ conns' = conns
                      /\ Return(Err(f, IoError("write")))
    /\ UNCHANGED <<sess, client, ncalls>>

(* `self.reconnect(10)?` returned an error *)
SendReconnectFailed ==
    /\ Running("send_command", "reconnected")
    /\ ret.by = "reconnect" /\ ~ret.ok
    /\ Return(Err([Top EXCEPT !.rcres = "err", !.rcfails = ret.frame.fails], ret.err))
    /\ UNCHANGED <<sess, conns, client, ncalls>>

(* SendRetry as a loop: a failed second write reconnects once more *)
SendRetry_again ==
    /\ Running("send_command", "reconnected")
    /\ ret.by = "reconnect" /\ ret.ok
    /\ LET c == sess[Top.s].sock
       IN  \E o \in WriteOutcomes :
             LET f == [Top EXCEPT !.outs = Append(@, o), !.wsocks = Append(@, c),
                                  !.rcres = "ok", !.rcfails = ret.frame.fails]
             IN  IF o = "ok"
                 THEN /\ conns' = Written(c, Top.cmd)
                      /\ Return(Ok(f, NoValue))
                 ELSE /\ conns' = conns
                      /\ Call([f EXCEPT !.rc = @ + 1], ReconnectFrame(Top.s, SendReconnectTries))
    /\ UNCHANGED <<sess, client, ncalls>>

(* `self.tcp_stream().write_all(&serialized_command)?; Ok(())` *)
SendRetry ==
    /\ Running("send_command", "reconnected")
    /\ ret.by = "reconnect" /\ ret.ok
    /\ LET c == sess[Top.s].sock
       IN  \E o \in WriteOutcomes :
             LET f == [Top EXCEPT !.outs = Append(@, o), !.wsocks = Append(@, c),
                                  !.rcres = "ok", !.rcfails = ret.frame.fails]
             IN  IF o = "ok"
                 THEN /\ conns' = Written(c, Top.cmd)
                      /\ Return(Ok(f, NoValue))
                 ELSE /\ conns' = conns
                      /\ Return(Err(f, IoError("write")))
    /\ UNCHANGED <<sess, client, ncalls>>

-----------------------------------------------------------------------------
(* Reconnectable::reconnect (stream.rs:37-58), CommandClient::reconnect    *)
(* (client.rs:96-116)                                                      *)

(* the error after the last try *)
ReconnectError(kind) ==
    IF kind = "CommandClient"
    THEN [type |-> "ConnectionError", msg |-> "Failed to reconnect", val |-> NoValue]
    ELSE IoError("Max attempts reached")

(* every reconnect that is running sees the connection attempt *)
CountConnect(st) ==
    [i \in DOMAIN st |->
        IF st[i].fn = "reconnect" THEN [st[i] EXCEPT !.conns = @ + 1] ELSE st[i]]

(* set_stream that forgets to store the new socket *)
set_stream_keep(s, c) == sess

(* Stream::set_stream (commandstream.rs:41-43, watchstream.rs:91-93) *)
set_stream(s, c) == [sess EXCEPT ![s].sock = c]

ReconnectConnect ==
    /\ Running("reconnect", "loop")
    /\ Top.tries < Top.max
    /\ LET st == CountConnect(stack)
           f == [st[Len(st)] EXCEPT !.tries = @ + 1]
       IN  \E o \in ConnectOutcomes :
             IF o = "ok"
             THEN /\ conns' = Append(conns, NewConn(Top.s))
                  /\ sess' = set_stream(Top.s, Len(conns) + 1)
                  /\ stack' = SubSeq(st, 1, Len(st) - 1)
                                \o <<[f EXCEPT !.pc = "hs"], HandshakeFrame(Top.s)>>
             ELSE /\ conns' = conns
                  /\ sess' = sess
                  /\ stack' = SubSeq(st, 1, Len(st) - 1) \o <<[f EXCEPT !.fails = @ + 1]>>
    /\ ret' = NoRet
    /\ UNCHANGED <<client, ncalls>>

(* ReconnectExhausted that gives up the socket it could not replace *)
ReconnectExhausted_reset ==
    /\ Running("reconnect", "loop")
    /\ ~(Top.tries < Top.max)
    /\ Return(Err(Top, ReconnectError(sess[Top.s].kind)))
    /\ sess' = [sess EXCEPT ![Top.s].sock = 0]
    /\ UNCHANGED <<conns, client, ncalls>>

ReconnectExhausted ==
    /\ Running("reconnect", "loop")
    /\ ~(Top.tries < Top.max)
    /\ Return(Err(Top, ReconnectError(sess[Top.s].kind)))
    /\ UNCHANGED <<sess, conns, client, ncalls>>

(* ReconnectHandshakeDone that goes on with the loop when the handshake    *)
(* on the new connection has failed                                        *)
ReconnectHandshakeDone_continue ==
    /\ Running("reconnect", "hs")
    /\ ret.by = "handshake"
    /\ LET f == [Top EXCEPT !.hs = ret.frame.reply]
       IN  IF ret.ok
           THEN Return(Ok(f, NoValue))
           ELSE /\ stack' = Rest \o <<[f EXCEPT !.pc = "loop"]>>
                /\ ret' = NoRet
    /\ UNCHANGED <<sess, conns, client, ncalls>>

(* `self.handshake()?; return Ok(())` *)
ReconnectHandshakeDone ==
    /\ Running("reconnect", "hs")
    /\ ret.by = "handshake"
    /\ LET f == [Top EXCEPT !.hs = ret.frame.reply]
       IN  Return(IF ret.ok THEN Ok(f, NoValue) ELSE Err(f, ret.err))
    /\ UNCHANGED <<sess, conns, client, ncalls>>

-----------------------------------------------------------------------------
(* Stream::handshake (commandstream.rs:49-62, watchstream.rs:99-112),      *)
(* CommandClient::handshake (client.rs:84-94)                              *)

HandshakeCall ==
    /\ Running("handshake", "call")
    /\ Call([Top EXCEPT !.pc = "check"],
            ExecFrame(Top.s, HANDSHAKE(sess[Top.s].id, ModeOf(sess[Top.s].kind))))
    /\ UNCHANGED <<sess, conns, client, ncalls>>

(* the error for a reply that is a value other than "OK": the value is     *)
(* carried by the variant (client.rs) or formatted into the message        *)
HandshakeError(kind, v) ==
    IF kind = "CommandClient"
    THEN [type |-> "HandshakeError", msg |-> "", val |-> v]
    ELSE [type |-> "IoError", msg |-> "Handshake error", val |-> v]

(* HandshakeResult without the `if v == "OK"` guard: any string passes *)
HandshakeResult_anystr(f, kind, r) ==
    IF ~r.ok THEN Err(f, r.err)
    ELSE IF r.val.t = "VStr" THEN Ok(f, NoValue)
    ELSE Err(f, HandshakeError(kind, r.val))

(* `let reply = self.execute_scalar_command(handshake)?; match reply {..}` *)
HandshakeResult(f, kind, r) ==
    IF ~r.ok THEN Err(f, r.err)
    ELSE IF r.val = VStr("OK") THEN Ok(f, NoValue)
    ELSE Err(f, HandshakeError(kind, r.val))

HandshakeCheck ==
    /\ Running("handshake", "check")
    /\ ret.by = "execute"
    /\ LET r == HandshakeResult([Top EXCEPT !.reply = Brief(ret)], sess[Top.s].kind, ret)
       IN  /\ Return(r)
           /\ conns' = IF r.ok THEN [conns EXCEPT ![sess[Top.s].sock].hsok = TRUE] ELSE conns
    /\ UNCHANGED <<sess, client, ncalls>>

-----------------------------------------------------------------------------
(* Client::new (client.rs:52-60): connect, then handshake; the Client is   *)
(* returned only when both succeeded.  `kind` is the session type the      *)
(* Client is built on: the CommandClient of client.rs or a CommandStream.  *)

NewSession(kind, n) ==
    [kind |-> kind, id |-> Uuid_new_v4(n), sock |-> Len(conns) + 1, fingerprint |-> None,
     host |-> Host, port |-> Port, yielded |-> <<>>]

ClientNew ==
    /\ Idle /\ client = "none"
    /\ \E kind \in {"CommandClient", "CommandStream"}, o \in ConnectOutcomes :
         IF o = "ok"
         THEN /\ conns' = Append(conns, NewConn("cmd"))
              /\ sess' = [sess EXCEPT !["cmd"] = NewSession(kind, 1)]
              /\ stack' = <<[fn |-> "Client::new", pc |-> "handshake", s |-> "cmd"],
                            HandshakeFrame("cmd")>>
              /\ UNCHANGED <<ret, client>>
         ELSE /\ client' = "failed"
              /\ ret' = Err([fn |-> "Client::new", pc |-> "connect", s |-> "cmd"], IoError("connect"))
              /\ UNCHANGED <<sess, conns, stack>>
    /\ UNCHANGED ncalls

(* ClientNewDone without the `?`: the result of the handshake is dropped *)
ClientNewDone_unchecked ==
    /\ Running("Client::new", "handshake")
    /\ ret.by = "handshake"
    /\ client' = "ready"
    /\ sess' = sess
    /\ Return(Ok(Top, NoValue))
    /\ UNCHANGED <<conns, ncalls>>

ClientNewDone ==
    /\ Running("Client::new", "handshake")
    /\ ret.by = "handshake"
    /\ IF ret.ok
       THEN /\ client' = "ready"
            /\ sess' = sess
            /\ Return(Ok(Top, NoValue))
       ELSE /\ client' = "failed"
            /\ sess' = [sess EXCEPT !["cmd"] = NoSession]
            /\ Return(Err(Top, ret.err))
    /\ UNCHANGED <<conns, ncalls>>

(* tests::test_reconnect (stream.rs:131-136): CommandStream::new           *)
(* (commandstream.rs:20-29), then reconnect(max_tries) on the bare stream  *)
CommandStreamNew ==
    /\ Idle /\ client = "none"
    /\ \E o \in ConnectOutcomes :
         IF o = "ok"
         THEN /\ conns' = Append(conns, NewConn("cmd"))
              /\ sess' = [sess EXCEPT !["cmd"] = NewSession("CommandStream", 1)]
              /\ client' = "bare"
              /\ ret' = ret
         ELSE /\ client' = "failed"
              /\ ret' = Err([fn |-> "CommandStream::new", pc |-> "connect", s |-> "cmd"],
                            IoError("connect"))
              /\ UNCHANGED <<sess, conns>>
    /\ UNCHANGED <<stack, ncalls>>

Reconnect ==
    /\ Idle /\ client = "bare" /\ ncalls < MaxCalls
    /\ \E m \in 1..MaxTries : stack' = <<ReconnectFrame("cmd", m)>>
    /\ ncalls' = ncalls + 1
    /\ ret' = NoRet
    /\ UNCHANGED <<sess, conns, client>>

(* the wrappers of commandrpc.rs: self.command_client.execute_scalar_command(..) *)
Execute ==
    /\ Idle /\ client = "ready" /\ ncalls < MaxCalls
    /\ \E c \in UserCommands : stack' = <<ExecFrame("cmd", c)>>
    /\ ncalls' = ncalls + 1
    /\ ret' = NoRet
    /\ UNCHANGED <<sess, conns, client>>

-----------------------------------------------------------------------------
(* Client::get_watch (watchrpc.rs:21-30) and WatchStream::new              *)
(* (watchstream.rs:47-58)                                                  *)

(* the activation record of get_watch: the key, the number of connections  *)
(* that existed when it was called, and the result and the read of its     *)
(* GETWATCH                                                                *)
GetWatchFrame(key, pc) ==
    [fn |-> "get_watch", pc |-> pc, s |-> "ws", key |-> key, nconn0 |-> Len(conns),
     reply |-> NoReply, got |-> NoRead]

(* GetWatch that registers the watch on the client's command connection *)
GetWatch_shared ==
    /\ Idle /\ client = "ready" /\ ncalls < MaxCalls
    /\ sess["cmd"].kind = "CommandStream" /\ sess["ws"].kind = "none"
    /\ \E key \in Keys :
         /\ sess' = [sess EXCEPT !["ws"] =
                        [NewSession("WatchStream", 2) EXCEPT !.sock = sess["cmd"].sock]]
         /\ stack' = <<GetWatchFrame(key, "handshake"), HandshakeFrame("ws")>>
         /\ ret' = NoRet
    /\ ncalls' = ncalls + 1
    /\ UNCHANGED <<conns, client>>

GetWatch ==
    /\ Idle /\ client = "ready" /\ ncalls < MaxCalls
    /\ sess["cmd"].kind = "CommandStream" /\ sess["ws"].kind = "none"
    /\ \E key \in Keys, o \in ConnectOutcomes :
         IF o = "ok"
         THEN /\ conns' = Append(conns, NewConn("ws"))
              /\ sess' = [sess EXCEPT !["ws"] = NewSession("WatchStream", 2)]
              /\ stack' = <<GetWatchFrame(key, "handshake"), HandshakeFrame("ws")>>
              /\ ret' = NoRet
         ELSE /\ ret' = Err(GetWatchFrame(key, "connect"), IoError("connect"))
              /\ UNCHANGED <<sess, conns, stack>>
    /\ ncalls' = ncalls + 1
    /\ UNCHANGED client

(* GetWatchHandshakeDone that sets the fingerprint before GETWATCH is sent *)
GetWatchHandshakeDone_early ==
    /\ Running("get_watch", "handshake")
    /\ ret.by = "handshake"
    /\ IF ret.ok
       THEN /\ Call([Top EXCEPT !.pc = "registered"], ExecFrame("ws", GETWATCH(Top.key)))
            /\ sess' = [sess EXCEPT !["ws"].fingerprint = Some(Top.key)]
       ELSE /\ stack' = Rest \o <<DropFrame(Err(Top, ret.err))>>
            /\ ret' = NoRet
            /\ sess' = sess
    /\ UNCHANGED <<conns, client, ncalls>>

(* `new_watch_stream.handshake()?`; on the error path the stream is dropped *)
GetWatchHandshakeDone ==
    /\ Running("get_watch", "handshake")
    /\ ret.by = "handshake"
    /\ IF ret.ok
       THEN Call([Top EXCEPT !.pc = "registered"], ExecFrame("ws", GETWATCH(Top.key)))
       ELSE /\ stack' = Rest \o <<DropFrame(Err(Top, ret.err))>>
            /\ ret' = NoRet
    /\ UNCHANGED <<sess, conns, client, ncalls>>

(* `let reply = new_watch_stream.execute_scalar_command(get_watch)?;`      *)
(* `new_watch_stream.fingerprint = Some(key.to_string());`                 *)
GetWatchReply ==
    /\ Running("get_watch", "registered")
    /\ ret.by = "execute"
    /\ LET f == [Top EXCEPT !.reply = Brief(ret), !.got = ret.frame.got]
       IN  IF ret.ok
           THEN /\ sess' = [sess EXCEPT !["ws"].fingerprint = Some(Top.key)]
                /\ Return(Ok(f, ret.val))
           ELSE /\ sess' = sess
                /\ stack' = Rest \o <<DropFrame(Err(f, ret.err))>>
                /\ ret' = NoRet
    /\ UNCHANGED <<conns, client, ncalls>>

-----------------------------------------------------------------------------
(* impl Drop for WatchStream (watchstream.rs:61-68) *)

(* the caller lets go of the subscription it got from get_watch *)
DropWatch ==
    /\ Idle /\ sess["ws"].kind = "WatchStream"
    /\ stack' = <<DropFrame(NoRet)>>
    /\ ret' = NoRet
    /\ UNCHANGED <<sess, conns, client, ncalls>>

(* what the caller sees when the drop is over: nothing of the drop itself; *)
(* a failed get_watch returns its error                                    *)
Dropped(f) ==
    IF f.pending.by = "none"
    THEN Ok(f, NoValue)
    ELSE [f.pending EXCEPT !.frame = [f EXCEPT !.fn = f.pending.by]]

DropStart ==
    /\ Running("drop", "start")
    /\ IF sess["ws"].fingerprint.some
       THEN /\ Call([Top EXCEPT !.pc = "unwatch", !.cmd = UNWATCH(sess["ws"].fingerprint.key)],
                    ExecFrame("ws", UNWATCH(sess["ws"].fingerprint.key)))
            /\ sess' = sess
       ELSE /\ sess' = [sess EXCEPT !["ws"] = NoSession]
            /\ Return(Dropped([Top EXCEPT !.pc = "done"]))
    /\ UNCHANGED <<conns, client, ncalls>>

(* `_ = self.execute_scalar_command(..)`: the result is discarded *)
DropDone ==
    /\ Running("drop", "unwatch")
    /\ ret.by = "execute"
    /\ sess' = [sess EXCEPT !["ws"] = NoSession]
    /\ Return(Dropped([Top EXCEPT !.pc = "done", !.unwatch = ret.frame.send]))
    /\ UNCHANGED <<conns, client, ncalls>>

-----------------------------------------------------------------------------
(* impl Iterator for WatchStream (watchstream.rs:70-80) over               *)
(* WatchValueReceiver::recieve_watchvalue (stream.rs:63-71)                *)

(* what the server pushes on a watch connection *)
WatchFrames ==
    { Response("", [k |-> "VInt", s |-> "", i |-> 7],
               Attrs([n \in {"fingerprint"} |-> StringValue("k")]), EmptyMap),
      Response("", [k |-> "VInt", s |-> "", i |-> 7], NoAttrs, EmptyMap),
      Garbage }

(* one read() on a watch connection: the server sends events unasked *)
WatchReadOutcomes ==
    { [io |-> "error", bytes |-> Garbage], [io |-> "eof", bytes |-> EmptyBytes] }
    \cup { [io |-> "data", bytes |-> b] : b \in WatchFrames }

NextFrame(o) == [fn |-> "next", pc |-> "done", s |-> "ws", sock |-> sess["ws"].sock, got |-> o]

(* recieve_watchvalue: one read, then decode_watchvalue *)
recieve_watchvalue(f, o) ==
    IF o.io = "error"
    THEN Err(f, IoError("read"))
    ELSE LET d == decode_watchvalue(o.bytes)
         IN  IF d.ok THEN Ok(f, d.val) ELSE Err(f, d.err)

(* Iterator_next that forgets the watched key when a read fails *)
Iterator_next_clears ==
    /\ Idle /\ sess["ws"].kind = "WatchStream"
    /\ Len(sess["ws"].yielded) < MaxSteps
    /\ \E o \in WatchReadOutcomes :
         LET r == recieve_watchvalue(NextFrame(o), o)
         IN  /\ ret' = r
             /\ sess' = [sess EXCEPT !["ws"].yielded =
                                         Append(@, IF r.ok THEN "Some" ELSE "None"),
                                     !["ws"].fingerprint = IF r.ok THEN @ ELSE None]
    /\ UNCHANGED <<conns, stack, client, ncalls>>

(* `match self.recieve_watchvalue() { Ok(val) => Some(val), Err(_) => None }`: *)
(* in `ret`, ok means Some(val); for None, err is the error that was dropped   *)
Iterator_next ==
    /\ Idle /\ sess["ws"].kind = "WatchStream"
    /\ Len(sess["ws"].yielded) < MaxSteps
    /\ \E o \in WatchReadOutcomes :
         LET r == recieve_watchvalue(NextFrame(o), o)
         IN  /\ ret' = r
             /\ sess' = [sess EXCEPT !["ws"].yielded =
                                         Append(@, IF r.ok THEN "Some" ELSE "None")]
    /\ UNCHANGED <<conns, stack, client, ncalls>>

-----------------------------------------------------------------------------

Next ==
    \/ ClientNew \/ ClientNewDone \/ CommandStreamNew \/ Reconnect \/ Execute
    \/ ExecSend \/ ExecSendFailed \/ ExecRecv
    \/ SendWrite \/ SendReconnectFailed \/ SendRetry
    \/ ReconnectConnect \/ ReconnectExhausted \/ ReconnectHandshakeDone
    \/ HandshakeCall \/ HandshakeCheck
    \/ GetWatch \/ GetWatchHandshakeDone \/ GetWatchReply
    \/ DropWatch \/ DropStart \/ DropDone

Spec == Init /\ [][Next]_vars

-----------------------------------------------------------------------------
(* The life of a subscription.  It starts where Client::new and then       *)
(* get_watch("k") have returned Ok without a write failure: the command    *)
(* connection and the watch connection are open, both handshakes were      *)
(* answered "OK", the GETWATCH was answered with the first value.          *)

WatchInit ==
    \E b \in { x \in ServerFrames : x.valid /\ x.err = "" } :
      LET reply == ScalarValue_decode(b)
          f == [fn |-> "get_watch", pc |-> "registered", s |-> "ws", key |-> "k", nconn0 |-> 1,
                reply |-> reply, got |-> [io |-> "data", bytes |-> b]]
      IN  /\ sess = [cmd |-> [NoSession EXCEPT !.kind = "CommandStream", !.id = Uuid_new_v4(1),
                                                !.sock = 1, !.host = Host, !.port = Port],
                     ws |-> [NoSession EXCEPT !.kind = "WatchStream", !.id = Uuid_new_v4(2),
                                               !.sock = 2, !.host = Host, !.port = Port,
                                               !.fingerprint = Some("k")]]
          /\ conns = << [owner |-> "cmd", written |-> <<HANDSHAKE(Uuid_new_v4(1), "Command")>>,
                         nread |-> 1, hsok |-> TRUE, inbox |-> <<>>, noframe |-> FALSE, peer |-> "open"],
                        [owner |-> "ws",
                         written |-> <<HANDSHAKE(Uuid_new_v4(2), "Watch"), GETWATCH("k")>>,
                         nread |-> 2, hsok |-> TRUE, inbox |-> <<>>, noframe |-> FALSE, peer |-> "open"] >>
          /\ stack = <<>>
          /\ ret = Ok(f, reply.val)
          /\ client = "ready"
          /\ ncalls = 1

WatchNext ==
    \/ Iterator_next \/ Execute
    \/ GetWatch \/ GetWatchHandshakeDone \/ GetWatchReply
    \/ DropWatch \/ DropStart \/ DropDone
    \/ ExecSend \/ ExecSendFailed \/ ExecRecv
    \/ SendWrite \/ SendReconnectFailed \/ SendRetry
    \/ ReconnectConnect \/ ReconnectExhausted \/ ReconnectHandshakeDone
    \/ HandshakeCall \/ HandshakeCheck

WatchSpec == WatchInit /\ [][WatchNext]_vars

-----------------------------------------------------------------------------
(* The three receive functions of stream.rs:63-91 at the level of bytes.   *)
(* A command was written on the client's connection and the server has     *)
(* answered it: the bytes of the response are on their way.  One read()    *)
(* returns any non-empty prefix of the bytes not read so far (the          *)
(* transport may deliver a response in pieces), zero bytes when nothing is *)
(* left and the peer has closed, or an I/O error.                          *)

ReceiveInit ==
    \E msg \in ServerMessages :
      /\ sess = [cmd |-> [NoSession EXCEPT !.kind = "CommandStream", !.id = Uuid_new_v4(1),
                                            !.sock = 1, !.host = Host, !.port = Port],
                 ws |-> NoSession]
      /\ conns = << [owner |-> "cmd",
                     written |-> <<HANDSHAKE(Uuid_new_v4(1), "Command"), GET("k")>>,
                     nread |-> 1, hsok |-> TRUE, inbox |-> Encode(msg), noframe |-> FALSE, peer |-> "open"] >>
      /\ stack = <<>>
      /\ ret = NoRet
      /\ client = "ready"
      /\ ncalls = 0

ByteReadOutcomes(c) ==
    { [io |-> "error", n |-> 0] }
    \cup (IF conns[c].inbox = <<>> THEN { [io |-> "eof", n |-> 0] }
          ELSE { [io |-> "data", n |-> n] : n \in 1..Len(conns[c].inbox) })

(* `let size = self.tcp_stream().read(&mut buffer)?; &buffer[..size]` and  *)
(* the decoding of that slice as a wire::Response                          *)
ReadSlice(c, o) ==
    [io |-> o.io,
     bytes |-> IF o.io = "error" THEN Garbage
               ELSE Response_decode(SubSeq(conns[c].inbox, 1, o.n))]

ReceiveFrame(fn, c, o) ==
    [fn |-> fn, pc |-> "done", s |-> "cmd",
     avail |-> conns[c].inbox,     \* the bytes that could be read
     n |-> o.n,                    \* the bytes the read returned
     got |-> ReadSlice(c, o)]

Taken(c, o) == [conns EXCEPT ![c].inbox = SubSeq(@, o.n + 1, Len(@))]

(* receive_hset_value (stream.rs:84-90): one read, then HSetValue::decode *)
receive_hset_value(f, o) ==
    IF o.io = "error"
    THEN Err(f, IoError("read"))
    ELSE LET d == HSetValue_decode(o.bytes)
         IN  IF d.ok THEN Ok(f, d.val) ELSE Err(f, d.err)

ReceiveScalar ==
    /\ Idle /\ ncalls < MaxReads
    /\ LET c == sess["cmd"].sock
       IN  \E o \in ByteReadOutcomes(c) :
             /\ ret' = ReceiveResult(ReceiveFrame("receive_scalar_value", c, o),
                                     sess["cmd"].kind, ReadSlice(c, o))
             /\ conns' = Taken(c, o)
    /\ ncalls' = ncalls + 1
    /\ UNCHANGED <<sess, stack, client>>

ReceiveWatch ==
    /\ Idle /\ ncalls < MaxReads
    /\ LET c == sess["cmd"].sock
       IN  \E o \in ByteReadOutcomes(c) :
             /\ ret' = recieve_watchvalue(ReceiveFrame("recieve_watchvalue", c, o),
                                          ReadSlice(c, o))
             /\ conns' = Taken(c, o)
    /\ ncalls' = ncalls + 1
    /\ UNCHANGED <<sess, stack, client>>

ReceiveHset ==
    /\ Idle /\ ncalls < MaxReads
    /\ LET c == sess["cmd"].sock
       IN  \E o \in ByteReadOutcomes(c) :
             /\ ret' = receive_hset_value(ReceiveFrame("receive_hset_value", c, o),
                                          ReadSlice(c, o))
             /\ conns' = Taken(c, o)
    /\ ncalls' = ncalls + 1
    /\ UNCHANGED <<sess, stack, client>>

ReceiveNext == ReceiveScalar \/ ReceiveWatch \/ ReceiveHset

ReceiveSpec == ReceiveInit /\ [][ReceiveNext]_vars

-----------------------------------------------------------------------------
(* Scalar values and SET inputs (commands.rs:34-171).  A float is written  *)
(* in tenths: VFloat(15) is 1.5 and SetInput_Float(420) is 42.0.           *)

VBool(b) == [t |-> "VBool", s |-> "", i |-> IF b THEN 1 ELSE 0]

SetInput_Str(x) == [t |-> "Str", s |-> x, i |-> 0]
SetInput_Int(n) == [t |-> "Int", s |-> "", i |-> n]
SetInput_Float(n) == [t |-> "Float", s |-> "", i |-> n]

(* impl Into<ScalarValue> for SetInput *)
SetInput_into(v) ==
    CASE v.t = "Str" -> VStr(v.s)
      [] v.t = "Int" -> VInt(v.i)
      [] v.t = "Float" -> VFloat(v.i)

(* u64::to_string, i64::to_string, f64::to_string *)
RECURSIVE u64_to_string(_)
u64_to_string(n) ==
    IF n < 10 THEN <<"0", "1", "2", "3", "4", "5", "6", "7", "8", "9">>[n + 1]
    ELSE u64_to_string(n \div 10) \o u64_to_string(n % 10)

i64_to_string(i) == IF i < 0 THEN "-" \o u64_to_string(0 - i) ELSE u64_to_string(i)

f64_to_string(n) ==
    LET a == IF n < 0 THEN 0 - n ELSE n
        sign == IF n < 0 THEN "-" ELSE ""
    IN  IF a % 10 = 0 THEN sign \o u64_to_string(a \div 10)
        ELSE sign \o u64_to_string(a \div 10) \o "." \o u64_to_string(a % 10)

(* impl AsArg for ScalarValue *)
ScalarValue_as_arg(v) ==
    CASE v.t = "VStr" -> v.s
      [] v.t = "VInt" -> i64_to_string(v.i)
      [] v.t = "VFloat" -> f64_to_string(v.i)
      [] v.t = "VBool" -> IF v.i = 1 THEN "true" ELSE "false"
      [] v.t = "VNull" -> ""

-----------------------------------------------------------------------------
(* Options of commands and the encoding of SET, EXPIRE, EXPIREAT, EXISTS   *)
(* and DEL (commands.rs:309-418, 548-707)                                  *)

(* SetOption: EX(n), PX(n), EXAT(n), PXAT(n), XX, NX, KEEPTTL, None *)
SetOption(o, n) == [o |-> o, n |-> n]

(* impl AsArgs for SetOption *)
SetOption_as_args(option) ==
    CASE option.o \in {"EX", "PX", "EXAT", "PXAT"} -> <<option.o, u64_to_string(option.n)>>
      [] option.o \in {"XX", "NX", "KEEPTTL"} -> <<option.o>>
      [] option.o = "None" -> <<>>

(* impl AsArg for ExpireAtOption *)
ExpireAtOption_as_arg(option) ==
    CASE option = "NX" -> "NX" [] option = "XX" -> "XX"
      [] option = "GT" -> "GT" [] option = "LT" -> "LT" [] option = "None" -> ""

(* SET with the GET token in front of the option tokens *)
SET_get_first(key, value, option, get) ==
    [cmd |-> "SET",
     args |-> <<key, ScalarValue_as_arg(SetInput_into(value))>>
              \o (IF get THEN <<"GET">> ELSE <<>>)
              \o SetOption_as_args(option)]

SET(key, value, option, get) ==
    [cmd |-> "SET",
     args |-> <<key, ScalarValue_as_arg(SetInput_into(value))>>
              \o SetOption_as_args(option)
              \o (IF get THEN <<"GET">> ELSE <<>>)]

(* EXPIRE that pushes option.as_arg() whatever the option: "" for None *)
EXPIRE_as_arg(key, seconds, option) ==
    [cmd |-> "EXPIRE",
     args |-> <<key, i64_to_string(seconds), IF option = "None" THEN "" ELSE option>>]

EXPIRE(key, seconds, option) ==
    [cmd |-> "EXPIRE",
     args |-> <<key, i64_to_string(seconds)>>
              \o (CASE option = "NX" -> <<"NX">>
                    [] option = "XX" -> <<"XX">>
                    [] option = "None" -> <<>>)]

EXPIREAT(key, timestamp, option) ==
    [cmd |-> "EXPIREAT",
     args |-> <<key, i64_to_string(timestamp)>>
              \o (IF option = "None" THEN <<>> ELSE <<ExpireAtOption_as_arg(option)>>)]

(* EXISTS with the first key after the additional ones *)
EXISTS_key_last(key, additional_keys) ==
    [cmd |-> "EXISTS", args |-> additional_keys \o <<key>>]

EXISTS(key, additional_keys) ==
    [cmd |-> "EXISTS", args |-> <<key>> \o additional_keys]

DEL(keys) == [cmd |-> "DEL", args |-> keys]

(* impl Into<wire::Command> for Command; a Command is its variant `op` and *)
(* its fields                                                              *)
Command_into(c) ==
    CASE c.op = "SET" -> SET(c.key, c.value, c.option, c.get)
      [] c.op = "EXPIRE" -> EXPIRE(c.key, c.seconds, c.option)
      [] c.op = "EXPIREAT" -> EXPIREAT(c.key, c.timestamp, c.option)
      [] c.op = "EXISTS" -> EXISTS(c.key, c.additional_keys)
      [] c.op = "DEL" -> DEL(c.keys)

(* the inputs *)
KeyNames == {"k", "j"}
KeyLists == UNION { [1..n -> KeyNames] : n \in 0..MaxKeys }
SetInputs ==
    { SetInput_Str("v"), SetInput_Str(""), SetInput_Int(0), SetInput_Int(0 - 5),
      SetInput_Int(10), SetInput_Float(15), SetInput_Float(420) }

Commands ==
    LET SetOptions ==
            { SetOption(o, n) : o \in {"EX", "PX", "EXAT", "PXAT"}, n \in {0, 10} }
            \cup { SetOption(o, 0) : o \in {"XX", "NX", "KEEPTTL", "None"} }
        Seconds == {0 - 1, 0, 10, 1700000000}
    IN  { [op |-> "SET", key |-> k, value |-> v, option |-> o, get |-> g] :
              k \in Keys, v \in SetInputs, o \in SetOptions, g \in BOOLEAN }
        \cup { [op |-> "EXPIRE", key |-> k, seconds |-> n, option |-> o] :
                  k \in Keys, n \in Seconds, o \in {"NX", "XX", "None"} }
        \cup { [op |-> "EXPIREAT", key |-> k, timestamp |-> n, option |-> o] :
                  k \in Keys, n \in Seconds, o \in {"NX", "XX", "GT", "LT", "None"} }
        \cup { [op |-> "EXISTS", key |-> k, additional_keys |-> ks] :
                  k \in Keys, ks \in KeyLists }
        \cup { [op |-> "DEL", keys |-> ks] : ks \in KeyLists }

(* Command::encode (commands.rs:709-715) applied to one command: the frame *)
(* keeps the command and the wire::Command it was turned into              *)
EncodeInit ==
    \E c \in Commands :
      /\ sess = [cmd |-> [NoSession EXCEPT !.kind = "CommandStream", !.id = Uuid_new_v4(1),
                                            !.sock = 1, !.host = Host, !.port = Port],
                 ws |-> NoSession]
      /\ conns = << [owner |-> "cmd", written |-> <<HANDSHAKE(Uuid_new_v4(1), "Command")>>,
                     nread |-> 1, hsok |-> TRUE, inbox |-> <<>>, noframe |-> FALSE, peer |-> "open"] >>
      /\ stack = <<[fn |-> "encode", pc |-> "start", s |-> "cmd", command |-> c,
                    wire |-> NoCmd]>>
      /\ ret = NoRet
      /\ client = "ready"
      /\ ncalls = 0

Command_encode ==
    /\ Running("encode", "start")
    /\ Return(Ok([Top EXCEPT !.pc = "done", !.wire = Command_into(Top.command)], NoValue))
    /\ UNCHANGED <<sess, conns, client, ncalls>>

EncodeSpec == EncodeInit /\ [][Command_encode]_vars

-----------------------------------------------------------------------------
(* Client::del (commandrpc.rs:86-96) on a client that Client::new has      *)
(* returned: the input is turned into the list of keys, the DEL command is *)
(* executed on the command session.                                        *)

(* DelInput and its two conversions (commands.rs:16-21, commandrpc.rs:17-27) *)
DelInput_Single(key) == [t |-> "Single", keys |-> <<key>>]
DelInput_Multiple(keys) == [t |-> "Multiple", keys |-> keys]

DelInputs ==
    { DelInput_Single(k) : k \in KeyNames } \cup { DelInput_Multiple(ks) : ks \in KeyLists }

(* `let keys = match del_input { Single(key) => vec![key].., Multiple(keys) => keys.. }` *)
DelKeys(del_input) ==
    IF del_input.t = "Single" THEN <<del_input.keys[1]>> ELSE del_input.keys

DelInit ==
    /\ sess = [cmd |-> [NoSession EXCEPT !.kind = "CommandStream", !.id = Uuid_new_v4(1),
                                          !.sock = 1, !.host = Host, !.port = Port],
               ws |-> NoSession]
    /\ conns = << [owner |-> "cmd", written |-> <<HANDSHAKE(Uuid_new_v4(1), "Command")>>,
                   nread |-> 1, hsok |-> TRUE, inbox |-> <<>>, noframe |-> FALSE, peer |-> "open"] >>
    /\ stack = <<>>
    /\ ret = NoRet
    /\ client = "ready"
    /\ ncalls = 0

Client_del ==
    /\ Idle /\ client = "ready" /\ ncalls < MaxDels
    /\ \E del_input \in DelInputs :
         stack' = <<ExecFrame("cmd", Command_into([op |-> "DEL", keys |-> DelKeys(del_input)]))
                    @@ [input |-> del_input]>>
    /\ ncalls' = ncalls + 1
    /\ ret' = NoRet
    /\ UNCHANGED <<sess, conns, client>>

DelNext ==
    \/ Client_del
    \/ ExecSend \/ ExecSendFailed \/ ExecRecv
    \/ SendWrite \/ SendReconnectFailed \/ SendRetry
    \/ ReconnectConnect \/ ReconnectExhausted \/ ReconnectHandshakeDone
    \/ HandshakeCall \/ HandshakeCheck

DelSpec == DelInit /\ [][DelNext]_vars

-----------------------------------------------------------------------------
(* Conversions of values (commands.rs:45-120) and Display for ScalarValue  *)
(* (commands.rs:149-159)                                                   *)

(* the result of a conversion that can fail: Result<SetInput, String> *)
ConvOk(v) == [ok |-> TRUE, val |-> v, err |-> ""]
ConvErr(m) == [ok |-> FALSE, val |-> NoValue, err |-> m]

(* try_into that turns a boolean into the integer 0 or 1 *)
ScalarValue_try_into_bool(v) ==
    CASE v.t = "VStr" -> ConvOk(SetInput_Str(v.s))
      [] v.t = "VInt" -> ConvOk(SetInput_Int(v.i))
      [] v.t = "VFloat" -> ConvOk(SetInput_Float(v.i))
      [] v.t = "VBool" -> ConvOk(SetInput_Int(v.i))
      [] v.t = "VNull" -> ConvErr("Cannot convert Value::VNull to SetValue")

(* impl TryInto<SetInput> for ScalarValue *)
ScalarValue_try_into(v) ==
    CASE v.t = "VStr" -> ConvOk(SetInput_Str(v.s))
      [] v.t = "VInt" -> ConvOk(SetInput_Int(v.i))
      [] v.t = "VFloat" -> ConvOk(SetInput_Float(v.i))
      [] v.t = "VBool" -> ConvErr("Cannot convert Value::VBool to SetValue")
      [] v.t = "VNull" -> ConvErr("Cannot convert Value::VNull to SetValue")

(* Display that writes Null as the empty string, as as_arg does *)
ScalarValue_fmt_empty(v) == IF v.t = "VNull" THEN "" ELSE ScalarValue_as_arg(v)

(* impl Display for ScalarValue *)
ScalarValue_fmt(v) ==
    CASE v.t = "VStr" -> v.s
      [] v.t = "VInt" -> i64_to_string(v.i)
      [] v.t = "VFloat" -> f64_to_string(v.i)
      [] v.t = "VBool" -> IF v.i = 1 THEN "true" ELSE "false"
      [] v.t = "VNull" -> "null"

(* An integer of a fixed-width type is its bit pattern: the set of the     *)
(* positions of its one bits, position 0 the least significant.            *)
IntTypes ==
    { [name |-> "i8", w |-> 8, signed |-> TRUE], [name |-> "u8", w |-> 8, signed |-> FALSE],
      [name |-> "i16", w |-> 16, signed |-> TRUE], [name |-> "u16", w |-> 16, signed |-> FALSE],
      [name |-> "i32", w |-> 32, signed |-> TRUE], [name |-> "u32", w |-> 32, signed |-> FALSE],
      [name |-> "i64", w |-> 64, signed |-> TRUE], [name |-> "u64", w |-> 64, signed |-> FALSE] }

IntOf(ty, bits) == [ty |-> ty.name, w |-> ty.w, signed |-> ty.signed, bits |-> bits]

(* the bits of x written in n >= x.w bits: a negative value is extended    *)
(* with ones, any other with zeros                                         *)
Extend(x, n) ==
    x.bits \cup (IF x.signed /\ (x.w - 1) \in x.bits THEN x.w..(n - 1) ELSE {})

(* `value as i64`: extension to 64 bits; the 64 bits of a u64 are kept     *)
as_i64(x) == [ty |-> "i64", w |-> 64, signed |-> TRUE, bits |-> Extend(x, 64) \cap (0..63)]

(* impl From<$t> for ScalarValue and for SetInput (the two macros) *)
ScalarValue_from(x) == VInt(as_i64(x))
SetInput_from(x) == SetInput_Int(as_i64(x))

(* the values of a type that are tried: 0, 1, all bits set, the top bit    *)
(* alone (the smallest value of a signed type), all bits but the top one   *)
(* (the largest value of a signed type), and three more around the top     *)
BitPatterns(w) ==
    { {}, {0}, 0..(w - 1), {w - 1}, 0..(w - 2), {w - 2}, {0, w - 1}, 1..(w - 1) }

IntInputs == UNION { { IntOf(ty, bits) : bits \in BitPatterns(ty.w) } : ty \in IntTypes }

ScalarValues ==
    { VStr("v"), VStr(""), VInt(0), VInt(0 - 5), VInt(10), VFloat(15), VFloat(420),
      VBool(TRUE), VBool(FALSE), VNull }

(* one conversion applied to one input; its result is added as `out` *)
ConvFrame(fn, input) == [fn |-> fn, pc |-> "start", s |-> "cmd", input |-> input]

ValueInit ==
    /\ sess = [s \in {"cmd", "ws"} |-> NoSession]
    /\ conns = <<>>
    /\ stack \in { <<ConvFrame("into", v)>> : v \in SetInputs }
                 \cup { <<ConvFrame("try_into", v)>> : v \in ScalarValues }
                 \cup { <<ConvFrame("fmt", v)>> : v \in ScalarValues }
                 \cup { <<ConvFrame("from", x)>> : x \in IntInputs }
    /\ ret = NoRet
    /\ client = "none"
    /\ ncalls = 0

ConvReturn(out) == Return(Ok(Top @@ [out |-> out], NoValue))

(* `let v: ScalarValue = input.into(); let back: Result<SetInput, String> = v.try_into();` *)
IntoThenTryInto ==
    /\ Running("into", "start")
    /\ LET v == SetInput_into(Top.input)
       IN  ConvReturn([scalar |-> v, back |-> ScalarValue_try_into(v)])
    /\ UNCHANGED <<sess, conns, client, ncalls>>

TryInto ==
    /\ Running("try_into", "start")
    /\ ConvReturn(ScalarValue_try_into(Top.input))
    /\ UNCHANGED <<sess, conns, client, ncalls>>

Display ==
    /\ Running("fmt", "start")
    /\ ConvReturn(ScalarValue_fmt(Top.input))
    /\ UNCHANGED <<sess, conns, client, ncalls>>

(* `let a: ScalarValue = x.into(); let b: SetInput = x.into();` *)
FromInt ==
    /\ Running("from", "start")
    /\ ConvReturn([scalar |-> ScalarValue_from(Top.input), setinput |-> SetInput_from(Top.input)])
    /\ UNCHANGED <<sess, conns, client, ncalls>>

ValueNext == IntoThenTryInto \/ TryInto \/ Display \/ FromInt

ValueSpec == ValueInit /\ [][ValueNext]_vars

-----------------------------------------------------------------------------
(* Two threads, as in tests::test_get_watch_iter (watchrpc.rs:89-125): the *)
(* subscription returned by get_watch("k") is moved to a second thread,    *)
(* which iterates over it until next() returns None, while the first       *)
(* thread calls client.set("k", 1), client.set("k", 2), ...                *)
(* `stack` and `ret` are the first thread's; what the second thread got is *)
(* kept in sess["ws"].yielded.  The server answers a SET on the connection *)
(* it came from and sends the change to the watch connection, with the     *)
(* fingerprint of the key; it does the two independently of each other.    *)
(* A connection has two more fields here: `answered`, the number of its    *)
(* requests the server has answered, and `pushed`, the values of the       *)
(* events the server has sent on it.                                       *)

ServedConn(s, written) ==
    [owner |-> s, written |-> written, nread |-> Len(written), hsok |-> TRUE,
     inbox |-> <<>>, noframe |-> FALSE, peer |-> "open", answered |-> Len(written), pushed |-> <<>>]

ThreadsInit ==
    /\ sess = [cmd |-> [NoSession EXCEPT !.kind = "CommandStream", !.id = Uuid_new_v4(1),
                                          !.sock = 1, !.host = Host, !.port = Port],
               ws |-> [NoSession EXCEPT !.kind = "WatchStream", !.id = Uuid_new_v4(2),
                                         !.sock = 2, !.host = Host, !.port = Port,
                                         !.fingerprint = Some("k")]]
    /\ conns = << ServedConn("cmd", <<HANDSHAKE(Uuid_new_v4(1), "Command")>>),
                  ServedConn("ws", <<HANDSHAKE(Uuid_new_v4(2), "Watch"), GETWATCH("k")>>) >>
    /\ stack = <<>>
    /\ ret = NoRet
    /\ client = "ready"
    /\ ncalls = 0

(* the k-th call of the first thread: client.set("k", k) (commandrpc.rs:303-311) *)
SetCommand(k) ==
    Command_into([op |-> "SET", key |-> "k", value |-> SetInput_Int(k),
                  option |-> SetOption("None", 0), get |-> FALSE])

SetFrame(k, pc, out) ==
    [fn |-> "set", pc |-> pc, s |-> "cmd", k |-> k, cmd |-> SetCommand(k), send |-> out]

(* what send_command (stream.rs:94-106) can come to: the write succeeds;   *)
(* it fails and reconnect(10) finds no server; reconnect opens a           *)
(* connection on which the handshake fails; reconnect succeeds and the     *)
(* second write succeeds or fails                                          *)
SetSendOutcomes ==
    {"written", "no_server"}
    \cup (IF Len(conns) < MaxConns THEN {"no_handshake", "rewritten", "not_rewritten"} ELSE {})

(* Client::set up to the end of its send_command *)
SetSend ==
    /\ Idle /\ client = "ready" /\ ncalls < MaxSets
    /\ ncalls' = ncalls + 1
    /\ LET k == ncalls + 1
           c == sess["cmd"].sock
           new == Len(conns) + 1
           hs == HANDSHAKE(sess["cmd"].id, ModeOf(sess["cmd"].kind))
       IN  \E o \in SetSendOutcomes :
             /\ conns' = CASE o = "written" -> Written(c, SetCommand(k))
                           [] o = "no_server" -> conns
                           [] o = "no_handshake" ->
                                Append(conns, [ServedConn("cmd", <<hs>>) EXCEPT !.hsok = FALSE])
                           [] o = "rewritten" ->
                                Append(conns, [ServedConn("cmd", <<hs>>)
                                                 EXCEPT !.written = <<hs, SetCommand(k)>>])
                           [] o = "not_rewritten" -> Append(conns, ServedConn("cmd", <<hs>>))
             /\ sess' = IF o \in {"written", "no_server"} THEN sess
                        ELSE set_stream("cmd", new)
             /\ IF o \in {"written", "rewritten"}
                THEN /\ stack' = <<SetFrame(k, "recv", o)>>
                     /\ ret' = NoRet
                ELSE /\ stack' = <<>>
                     /\ ret' = Err(SetFrame(k, "send", o),
                                   CASE o = "no_server" -> ReconnectError(sess["cmd"].kind)
                                     [] o = "no_handshake" -> IoError("Handshake error")
                                     [] o = "not_rewritten" -> IoError("write"))
    /\ UNCHANGED client

(* Client::set from its receive_scalar_value (stream.rs:74-80) on: one     *)
(* read of the command connection, which waits while nothing has come      *)
SetReceive ==
    /\ Running("set", "recv")
    /\ LET c == sess["cmd"].sock
       IN  \E o \in ByteReadOutcomes(c) :
             /\ ret' = ReceiveResult(ReceiveFrame("set", c, o)
                                        @@ [k |-> Top.k, cmd |-> Top.cmd, send |-> Top.send],
                                     sess["cmd"].kind, ReadSlice(c, o))
             /\ conns' = Taken(c, o)
    /\ stack' = <<>>
    /\ UNCHANGED <<sess, client, ncalls>>

(* the server answers the next request of a connection, a SET, with "OK" *)
ServerReply ==
    /\ \E c \in DOMAIN conns :
         /\ conns[c].answered < Len(conns[c].written)
         /\ conns[c].written[conns[c].answered + 1].cmd = "SET"
         /\ conns' = [conns EXCEPT ![c].answered = @ + 1,
                                   ![c].inbox = @ \o Encode(<<FValue([k |-> "VStr", s |-> "OK",
                                                                      i |-> 0])>>)]
    /\ UNCHANGED <<sess, stack, ret, client, ncalls>>

(* the values of the SET requests the server has been sent *)
SetsWritten ==
    { k \in 1..MaxSets : \E c \in DOMAIN conns : \E i \in 1..Len(conns[c].written) :
                            conns[c].written[i] = SetCommand(k) }

(* the bytes of the event for the value v of the watched key *)
WatchEvent(v) ==
    Encode(<<FValue([k |-> "VInt", s |-> "", i |-> v]),
             FAttrs([n \in {"fingerprint"} |-> StringValue("k")])>>)

(* ServerPush by a server that announces a change it has not been asked for yet *)
ServerPush_unasked ==
    /\ \E w \in DOMAIN conns :
         /\ conns[w].owner = "ws"
         /\ LET v == Len(conns[w].pushed) + 1
            IN  /\ v <= MaxSets
                /\ conns' = [conns EXCEPT ![w].pushed = Append(@, v),
                                          ![w].inbox = @ \o WatchEvent(v)]
    /\ UNCHANGED <<sess, stack, ret, client, ncalls>>

(* the server sends the change made by the next SET to the watcher of "k" *)
ServerPush ==
    /\ \E w \in DOMAIN conns :
         /\ conns[w].owner = "ws"
         /\ LET todo == { k \in SetsWritten : \A i \in 1..Len(conns[w].pushed) :
                                                 conns[w].pushed[i] < k }
            IN  /\ todo # {}
                /\ LET v == CHOOSE k \in todo : \A j \in todo : k <= j
                   IN  conns' = [conns EXCEPT ![w].pushed = Append(@, v),
                                              ![w].inbox = @ \o WatchEvent(v)]
    /\ UNCHANGED <<sess, stack, ret, client, ncalls>>

(* ThreadNext that opens a new connection for the subscription when its    *)
(* read has failed                                                         *)
ThreadNext_reconnects ==
    /\ sess["ws"].kind = "WatchStream"
    /\ \A i \in 1..Len(sess["ws"].yielded) : sess["ws"].yielded[i].some
    /\ LET c == sess["ws"].sock
       IN  \E o \in ByteReadOutcomes(c) :
             LET r == recieve_watchvalue(ReceiveFrame("next", c, o), ReadSlice(c, o))
                 y == [some |-> r.ok, val |-> r.val, n |-> o.n,
                       sent |-> Len(conns[c].pushed),
                       returned |-> IF Idle THEN ncalls ELSE ncalls - 1]
             IN  IF r.ok \/ Len(conns) >= MaxConns
                 THEN /\ sess' = [sess EXCEPT !["ws"].yielded = Append(@, y)]
                      /\ conns' = Taken(c, o)
                 ELSE /\ sess' = [sess EXCEPT !["ws"].yielded = Append(@, y),
                                              !["ws"].sock = Len(conns) + 1]
                      /\ conns' = Append(Taken(c, o), ServedConn("ws", <<>>))
    /\ UNCHANGED <<stack, ret, client, ncalls>>

(* the `for change in watch_stream` of the second thread: Iterator::next   *)
(* (watchstream.rs:73-79) until it returns None.  An entry of `yielded` is *)
(* what next() returned, with the number of events the server had sent and *)
(* the number of calls of set that had returned at that moment.            *)
ThreadNext ==
    /\ sess["ws"].kind = "WatchStream"
    /\ \A i \in 1..Len(sess["ws"].yielded) : sess["ws"].yielded[i].some
    /\ LET c == sess["ws"].sock
       IN  \E o \in ByteReadOutcomes(c) :
             LET r == recieve_watchvalue(ReceiveFrame("next", c, o), ReadSlice(c, o))
             IN  /\ sess' = [sess EXCEPT !["ws"].yielded =
                               Append(@, [some |-> r.ok, val |-> r.val, n |-> o.n,
                                          sent |-> Len(conns[c].pushed),
                                          returned |-> IF Idle THEN ncalls ELSE ncalls - 1])]
                 /\ conns' = Taken(c, o)
    /\ UNCHANGED <<stack, ret, client, ncalls>>

ThreadsNext == SetSend \/ SetReceive \/ ServerReply \/ ServerPush \/ ThreadNext

ThreadsSpec == ThreadsInit /\ [][ThreadsNext]_vars

-----------------------------------------------------------------------------
(* The teardown of a subscription with a peer that acts on its own.  It    *)
(* starts where get_watch("k") has returned Ok (WatchInit).  read() on a   *)
(* TcpStream has no timeout (none is set in watchstream.rs:48 or in        *)
(* stream.rs:41): it returns when bytes have arrived, when the peer has    *)
(* closed the connection (zero bytes) or when the connection was reset     *)
(* (an error), and waits otherwise.  The peer sends a frame, closes or     *)
(* resets a watch connection when it wants to, or never.                   *)

PeerFrames ==
    { Encode(<<FValue([k |-> "VStr", s |-> "OK", i |-> 0])>>),
      Encode(<<FErr("ERR wrong type")>>) }

PeerSends ==
    /\ \E c \in DOMAIN conns, bytes \in PeerFrames :
         /\ conns[c].owner = "ws" /\ conns[c].peer = "open"
         /\ Len(conns[c].inbox) + Len(bytes) <= MaxInbox
         /\ conns' = [conns EXCEPT ![c].inbox = @ \o bytes]
    /\ UNCHANGED <<sess, stack, ret, client, ncalls>>

PeerCloses ==
    /\ \E c \in DOMAIN conns, how \in {"closed", "reset"} :
         /\ conns[c].owner = "ws" /\ conns[c].peer = "open"
         /\ conns' = [conns EXCEPT ![c].peer = how]
    /\ UNCHANGED <<sess, stack, ret, client, ncalls>>

(* what a read() that returns can return; none while the read has to wait *)
SocketReadOutcomes(c) ==
    IF conns[c].inbox # <<>>
    THEN { [io |-> "data", n |-> n] : n \in 1..Len(conns[c].inbox) }
    ELSE IF conns[c].peer = "closed" THEN { [io |-> "eof", n |-> 0] }
    ELSE IF conns[c].peer = "reset" THEN { [io |-> "error", n |-> 0] }
    ELSE {}

(* the receive_scalar_value of execute_scalar_command (stream.rs:112) on   *)
(* such a socket                                                           *)
ExecRecvWait ==
    /\ Running("execute", "recv")
    /\ ret.by = "send_command" /\ ret.ok
    /\ LET c == sess[Top.s].sock
       IN  \E o \in SocketReadOutcomes(c) :
             /\ conns' = Taken(c, o)
             /\ Return(ReceiveResult([Top EXCEPT !.send = SendOf(ret), !.rd = @ + 1,
                                                 !.got = ReadSlice(c, o)],
                                     sess[Top.s].kind, ReadSlice(c, o)))
    /\ UNCHANGED <<sess, client, ncalls>>

(* the steps of the thread that drops the stream *)
TeardownSteps ==
    \/ DropStart \/ DropDone
    \/ ExecSend \/ ExecSendFailed \/ ExecRecvWait
    \/ SendWrite \/ SendReconnectFailed \/ SendRetry
    \/ ReconnectConnect \/ ReconnectExhausted \/ ReconnectHandshakeDone
    \/ HandshakeCall \/ HandshakeCheck

TeardownNext == DropWatch \/ TeardownSteps \/ PeerSends \/ PeerCloses

(* the thread keeps running: a step of it that stays possible is taken;    *)
(* nothing obliges the peer to do anything                                 *)
TeardownSpec == WatchInit /\ [][TeardownNext]_vars /\ WF_vars(TeardownSteps)

-----------------------------------------------------------------------------
(* Properties of send and execute *)

SendFrames == { stack[i] : i \in { j \in DOMAIN stack : stack[j].fn = "send_command" } }

(* C1: every call of send_command writes its command at most twice and     *)
(* calls reconnect at most once; the second write happens only after the   *)
(* first write failed and reconnect returned Ok; when the second write     *)
(* fails the call returns that write error at once, with no third write    *)
(* and no second reconnect.  An execute makes one such call.               *)
C1_SendCommandSinglePass ==
    /\ \A f \in SendFrames :
         /\ f.pc = "write" => f.outs = <<>> /\ f.rc = 0
         /\ f.pc = "reconnected" => f.outs = <<"failed">> /\ f.rc = 1
    /\ ret.by = "send_command" =>
         LET f == ret.frame
         IN  /\ Len(f.outs) \in {1, 2} /\ f.rc <= 1
             /\ Len(f.outs) = 2 => f.outs[1] = "failed" /\ f.rc = 1 /\ f.rcres = "ok"
             /\ f.outs = <<"failed", "failed">> => ~ret.ok /\ ret.err = IoError("write")
             /\ ret.ok <=> f.outs[Len(f.outs)] = "ok"
    /\ ret.by = "execute" =>
         /\ ret.frame.send.called
         /\ Len(ret.frame.send.outs) <= 2 /\ ret.frame.send.rc <= 1

C1_Witness ==
    ret.by = "send_command" /\ ret.frame.outs = <<"failed", "failed">>

(* C2: once the write of its command has succeeded, the next thing an      *)
(* execute does is return, after exactly one read and without writing,     *)
(* connecting or changing the session; a read I/O error, a decode error    *)
(* and a server-reported error are returned as they are.                   *)
C2_NoRetryAfterSend ==
    [][ (Running("execute", "recv") /\ ret.by = "send_command" /\ ret.ok) =>
          /\ stack' = Rest
          /\ ret'.by = "execute" /\ ret'.frame.rd = 1
          /\ Len(conns') = Len(conns)
          /\ \A c \in DOMAIN conns : conns'[c].written = conns[c].written
          /\ sess' = sess
          /\ LET o == ret'.frame.got
             IN  /\ o.io = "error" => ~ret'.ok /\ ret'.err = IoError("read")
                 /\ (o.io # "error" /\ ~o.bytes.valid) => ~ret'.ok /\ ret'.err = DecodeError
                 /\ (o.io # "error" /\ o.bytes.valid /\ o.bytes.err # "") =>
                        ~ret'.ok /\ ret'.err = ServerError(o.bytes.err) ]_vars

C2_Witness ==
    /\ ret.by = "execute" /\ ~ret.ok
    /\ ret.frame.send.ok /\ ret.frame.rd = 1
    /\ ret.err.type = "ServerError"

-----------------------------------------------------------------------------
(* Properties of reconnect *)

ReconnectFrames == { stack[i] : i \in { j \in DOMAIN stack : stack[j].fn = "reconnect" } }

(* C3: a call reconnect(max_tries) sees at most max_tries connection       *)
(* attempts between its call and its return, those made while the          *)
(* handshake of a fresh socket is being sent included.                     *)
C3_ConnectBudget ==
    /\ \A f \in ReconnectFrames : f.conns <= f.max
    /\ ret.by = "reconnect" => ret.frame.conns <= ret.frame.max

(* C4: when connecting failed k < max_tries times, then succeeded, and the *)
(* handshake was answered with "OK", reconnect returns Ok; after a         *)
(* successful reconnect the session holds a socket opened during the call, *)
(* its identifier is the one it had before, the handshake completed on     *)
(* that socket and every HANDSHAKE written on it carries that identifier.  *)
C4_ReconnectKeepsIdentity ==
    ret.by = "reconnect" =>
        LET f == ret.frame
            s == sess[f.s]
        IN  /\ (f.pc = "hs" /\ f.hs.ok /\ f.hs.val = VStr("OK")) =>
                   ret.ok /\ f.fails = f.tries - 1 /\ f.tries <= f.max
            /\ ret.ok =>
                   /\ s.sock \in DOMAIN conns /\ s.sock > f.nconn0
                   /\ s.id = f.id0
                   /\ conns[s.sock].hsok
                   /\ \E j \in DOMAIN conns[s.sock].written :
                          conns[s.sock].written[j].cmd = "HANDSHAKE"
                   /\ \A j \in DOMAIN conns[s.sock].written :
                          conns[s.sock].written[j].cmd = "HANDSHAKE" =>
                              conns[s.sock].written[j].args[1] = f.id0

C4_Witness ==
    ret.by = "reconnect" /\ ret.ok /\ ret.frame.fails >= 1 /\ ret.frame.fails < ret.frame.max

-----------------------------------------------------------------------------
(* Properties of handshake *)

C7_NoCommandWithoutHandshake ==
    \A c \in DOMAIN conns :
        ~conns[c].hsok =>
            \A j \in DOMAIN conns[c].written : conns[c].written[j].cmd = "HANDSHAKE"

(* C8: on every connection at most one written request is unanswered, so   *)
(* a request is never written while the reply to the one before it is      *)
(* unread.                                                                 *)
C8_OneInFlight ==
    \A c \in DOMAIN conns : Len(conns[c].written) - conns[c].nread <= 1

-----------------------------------------------------------------------------
(* Properties of the teardown of a WatchStream *)

(* C9: a drop with the fingerprint set writes UNWATCH(fingerprint) exactly *)
(* once, on the socket the stream held when the drop began; a drop with    *)
(* the fingerprint unset writes nothing.                                   *)
C9_DropWritesOneUnwatch ==
    (ret.by \in {"drop", "get_watch"} /\ ret.frame.pc = "done") =>
        LET d == ret.frame
        IN  IF d.fp0.some
            THEN /\ d.unwatch.called
                 /\ d.cmd = UNWATCH(d.fp0.key)
                 /\ d.unwatch.wsocks = <<d.sock0>>
            ELSE ~d.unwatch.called

(* C10: while a drop is running no reconnect runs, no connection is opened *)
(* and no handshake is sent.                                               *)
C10_NoReconnectInDrop ==
    (Len(stack) > 0 /\ stack[1].fn = "drop") =>
        /\ Len(conns) = stack[1].nconn0
        /\ \A i \in DOMAIN stack : stack[i].fn \notin {"reconnect", "handshake"}

-----------------------------------------------------------------------------
(* Properties of get_watch *)

C13_SocketChangesOnlyInReconnect ==
    /\ [](ret.by = "reconnect" /\ ret.frame.fails = ret.frame.max =>
             /\ ~ret.ok
             /\ sess[ret.frame.s].sock = ret.frame.s0.sock
             /\ sess[ret.frame.s].id = ret.frame.s0.id
             /\ sess[ret.frame.s].host = ret.frame.s0.host
             /\ sess[ret.frame.s].port = ret.frame.s0.port)
    /\ [][ \A s \in DOMAIN sess :
             (sess[s].kind # "none" /\ sess'[s].kind # "none" /\ sess'[s].sock # sess[s].sock) =>
                 /\ Running("reconnect", "loop") /\ Top.s = s
                 /\ Len(conns') = Len(conns) + 1
                 /\ sess'[s].sock = Len(conns')
                 /\ sess'[s] = [sess[s] EXCEPT !.sock = Len(conns')] ]_vars

C13_Witness ==
    /\ ret.by = "reconnect" /\ ~ret.ok
    /\ ret.frame.fails = ret.frame.max /\ ret.frame.max = MaxTries
    /\ sess[ret.frame.s].sock = ret.frame.s0.sock /\ ret.frame.s0.sock = 1

(* C14: the command session and the subscription hold different           *)
(* connections, each one opened by its holder; watch-mode HANDSHAKE,       *)
(* GETWATCH and UNWATCH are written only on connections opened for the     *)
(* subscription, and the commands of the client only on connections        *)
(* opened for the command session; next() reads the subscription's         *)
(* connection; get_watch starts by opening a connection of its own; and no *)
(* step of get_watch, of next() or of the drop of the subscription changes *)
(* the command session or anything written or read on its connections.     *)
C14_WatchOwnConnection ==
    /\ [](/\ \A s \in DOMAIN sess :
                sess[s].kind # "none" =>
                    sess[s].sock \in DOMAIN conns /\ conns[sess[s].sock].owner = s
           /\ \A c \in DOMAIN conns : \A j \in DOMAIN conns[c].written :
                LET w == conns[c].written[j]
                    watch == \/ w.cmd \in {"GET.WATCH", "UNWATCH"}
                             \/ w.cmd = "HANDSHAKE" /\ w.args[2] = "watch"
                IN  conns[c].owner = (IF watch THEN "ws" ELSE "cmd")
           /\ ret.by = "next" =>
                ret.frame.sock = sess["ws"].sock /\ conns[ret.frame.sock].owner = "ws")
    /\ [][ /\ (Idle /\ Len(stack') > 0 /\ stack'[1].fn = "get_watch") =>
                 /\ Len(conns') = Len(conns) + 1
                 /\ sess'["ws"].sock = Len(conns')
                 /\ conns'[Len(conns')].owner = "ws"
                 /\ conns'[Len(conns')].written = <<>>
                 /\ conns'[Len(conns')].nread = 0
           /\ (\/ Len(stack) > 0 /\ stack[1].fn \in {"get_watch", "drop"}
               \/ Len(stack') > 0 /\ stack'[1].fn \in {"get_watch", "drop"}
               \/ ret'.by = "next" /\ ret' # ret
               \/ sess'["ws"] # sess["ws"]) =>
                 /\ sess'["cmd"] = sess["cmd"]
                 /\ \A c \in DOMAIN conns : conns[c].owner = "cmd" => conns'[c] = conns[c] ]_vars

C14_Witness ==
    /\ ret.by = "next" /\ ret.ok
    /\ \E j \in DOMAIN conns[sess["cmd"].sock].written :
          conns[sess["cmd"].sock].written[j].cmd = "GET"

-----------------------------------------------------------------------------
(* Properties of the iteration of a WatchStream *)

(* C12: once a call of next() has returned None (its read or its decode    *)
(* failed), every later call of next() on that WatchStream returns None.   *)
C12_NonRestartable ==
    LET y == sess["ws"].yielded
    IN  \A i, j \in DOMAIN y : (i < j /\ y[i] = "None") => y[j] = "None"

(* C15: a fingerprint that is Some(key) stays Some(key) in every step      *)
(* (iteration steps with failed reads, the reconnects of the teardown      *)
(* included) until the step that ends the drop of the WatchStream.         *)
C15_FingerprintStable ==
    [][ sess["ws"].fingerprint.some =>
          \/ sess'["ws"].fingerprint = sess["ws"].fingerprint
          \/ /\ Len(stack) = 1 /\ Top.fn = "drop"
             /\ sess'["ws"].kind = "none" ]_vars

C15_Witness ==
    /\ Len(stack) > 1 /\ stack[1].fn = "drop"
    /\ Len(conns) > stack[1].nconn0
    /\ \E j \in DOMAIN sess["ws"].yielded : sess["ws"].yielded[j] = "None"
    /\ sess["ws"].fingerprint = Some("k")

-----------------------------------------------------------------------------
(* Properties of the decoders.  `Sent(f)` is the set of fields of the      *)
(* response whose bytes were waiting when the receive f read; a receive    *)
(* reads a whole response when it is the first read after the request and  *)
(* its read returned all the bytes.                                        *)

Sent(f) == { f.avail[i].fld : i \in DOMAIN f.avail }
WholeFrame(f) == ncalls = 1 /\ f.got.io = "data" /\ f.n = Len(f.avail)
SplitFrame(f) == ncalls = 1 /\ f.got.io = "data" /\ f.n < Len(f.avail)

(* C16: receive_scalar_value of a whole response: a response that is not a *)
(* well-formed message gives a decode error; otherwise one with an error   *)
(* string gives ServerError(that string), with or without a payload;       *)
(* otherwise the payload gives Nil -> VNull, Integer -> VInt, String ->     *)
(* VStr, Float -> VFloat, Bytes -> VStr, and no payload gives Ok(VNull).    *)
C16_DecodeScalar ==
    (ret.by = "receive_scalar_value" /\ WholeFrame(ret.frame)) =>
        LET flds == Sent(ret.frame)
            errs == { x \in flds : x.f = "err" }
            vals == { x \in flds : x.f = "value" }
        IN  IF \E x \in flds : x.f = "invalid"
            THEN ~ret.ok /\ ret.err.type = "DecodeError"
            ELSE IF errs # {}
            THEN ~ret.ok /\ \E x \in errs : ret.err = [type |-> "ServerError", msg |-> x.s,
                                                        val |-> NoValue]
            ELSE IF vals = {}
            THEN ret.ok /\ ret.val = [t |-> "VNull", s |-> "", i |-> 0]
            ELSE /\ ret.ok
                 /\ \E x \in vals :
                      ret.val = CASE x.p.k = "VNil" -> [t |-> "VNull", s |-> "", i |-> 0]
                                  [] x.p.k = "VInt" -> [t |-> "VInt", s |-> "", i |-> x.p.i]
                                  [] x.p.k = "VStr" -> [t |-> "VStr", s |-> x.p.s, i |-> 0]
                                  [] x.p.k = "VFloat" -> [t |-> "VFloat", s |-> "", i |-> x.p.i]
                                  [] x.p.k = "VBytes" -> [t |-> "VStr", s |-> x.p.s, i |-> 0]

C16_Witness ==
    /\ ret.by = "receive_scalar_value" /\ WholeFrame(ret.frame)
    /\ ~ret.ok /\ ret.err.type = "ServerError"
    /\ \E x \in Sent(ret.frame) : x.f = "value" /\ x.p.k = "VBytes"

(* C17: recieve_watchvalue of a whole response returns a WatchValue only   *)
(* when the response has attrs with a `fingerprint` entry of string kind,  *)
(* and the WatchValue's fingerprint is that string; a response without an  *)
(* error string that has no attrs, no `fingerprint` entry, or a            *)
(* `fingerprint` that is not a string is rejected with a                   *)
(* WatchValueExpectationError.                                             *)
C17_WatchNeedsFingerprint ==
    (ret.by = "recieve_watchvalue" /\ WholeFrame(ret.frame)) =>
        LET flds == Sent(ret.frame)
            fps == { x.a["fingerprint"] :
                       x \in { y \in flds : y.f = "attrs" /\ "fingerprint" \in DOMAIN y.a } }
            strs == { x \in fps : x.kind = "StringValue" }
            success == \A x \in flds : x.f \notin {"invalid", "err"}
        IN  /\ ret.ok => \E x \in strs : ret.val.fingerprint = x.s
            /\ (success /\ strs = {}) =>
                   ~ret.ok /\ ret.err.type = "WatchValueExpectationError"

C17_Witness ==
    /\ ret.by = "recieve_watchvalue" /\ WholeFrame(ret.frame)
    /\ ~ret.ok /\ ret.err.msg = "Fingerprint is not a string"
    /\ \E x \in Sent(ret.frame) : x.f = "value"

(* C18: for a whole response without an error string whose attrs hold a    *)
(* string `fingerprint`, recieve_watchvalue returns a WatchValue whose     *)
(* value is what ScalarValue::decode gives for the same bytes; with no     *)
(* payload that value is VNull.                                            *)
C18_WatchValueAsScalar ==
    (ret.by = "recieve_watchvalue" /\ WholeFrame(ret.frame)) =>
        LET flds == Sent(ret.frame)
            strs == { x \in flds : /\ x.f = "attrs" /\ "fingerprint" \in DOMAIN x.a
                                   /\ x.a["fingerprint"].kind = "StringValue" }
            success == \A x \in flds : x.f \notin {"invalid", "err"}
            scalar == ScalarValue_decode(ret.frame.got.bytes)
        IN  (success /\ strs # {}) =>
                /\ ret.ok /\ scalar.ok /\ ret.val.value = scalar.val
                /\ (\A x \in flds : x.f # "value") => ret.val.value = VNull

(* C19: receive_hset_value of a whole response without an error string     *)
(* returns the map made of the entries of the response, each key with its  *)
(* value; with no entries it returns the empty map, not an error.          *)
C19_DecodeFieldMap ==
    (ret.by = "receive_hset_value" /\ WholeFrame(ret.frame)) =>
        LET flds == Sent(ret.frame)
            entries == { x \in flds : x.f = "v_ss_map" }
            success == \A x \in flds : x.f \notin {"invalid", "err"}
        IN  success =>
                /\ ret.ok
                /\ DOMAIN ret.val.fields = { x.key : x \in entries }
                /\ \A x \in entries : ret.val.fields[x.key] = x.s
                /\ entries = {} => ret.val.fields = [n \in {} |-> ""]

C19_Witness ==
    /\ ret.by = "receive_hset_value" /\ WholeFrame(ret.frame)
    /\ ret.ok /\ DOMAIN ret.val.fields = {}
    /\ \A x \in Sent(ret.frame) : x.f = "value"

(* C20: a receive whose read returned only a part of the response that was *)
(* waiting returns a decode error (for recieve_watchvalue, a decode error  *)
(* or a WatchValueExpectationError) and never a value.                     *)
C20_SplitIsMalformed ==
    (ret.by \in {"receive_scalar_value", "recieve_watchvalue", "receive_hset_value"}
        /\ SplitFrame(ret.frame)) =>
        /\ ~ret.ok
        /\ ret.err.type \in {"DecodeError", "WatchValueExpectationError"}


-----------------------------------------------------------------------------
(* Properties of the encoding of commands *)

(* C22: every HANDSHAKE a session writes, the ones of reconnect included,  *)
(* is the operation HANDSHAKE with the arguments [session id, mode]; the   *)
(* mode is "command" on a connection of the command session and "watch"    *)
(* on a connection of a watch session.                                     *)
C22_HandshakeEncoding ==
    [][\A c \in DOMAIN conns :
         Len(conns'[c].written) = Len(conns[c].written) + 1
         => LET w == conns'[c].written[Len(conns'[c].written)]
                s == conns[c].owner
            IN  w.cmd = "HANDSHAKE"
                => w = [cmd |-> "HANDSHAKE",
                        args |-> <<sess[s].id,
                                   IF s = "ws" THEN "watch" ELSE "command">>]]_vars

(* a watch session has reconnected and written its handshake a second time *)
C22_Witness ==
    \E c1, c2 \in DOMAIN conns :
        /\ c1 < c2
        /\ conns[c1].owner = "ws" /\ conns[c2].owner = "ws"
        /\ Len(conns[c1].written) > 0 /\ conns[c1].written[1].cmd = "HANDSHAKE"
        /\ Len(conns[c2].written) > 0
        /\ conns[c2].written[1] = HANDSHAKE(sess["ws"].id, "Watch")


(* the command Command::encode has encoded, and its result *)
Encoded(op) == ret.by = "encode" /\ ret.frame.command.op = op

(* the text of the numbers used as operands *)
C23_Number(n) ==
    CASE n = 0 -> "0" [] n = 10 -> "10" [] n = 0 - 5 -> "-5" [] n = 0 - 1 -> "-1"
      [] n = 1700000000 -> "1700000000"

(* C23: SET(key, value, option, get) is encoded as the operation SET with  *)
(* the arguments key, the value as a string, then the tokens of the option *)
(* (EX n, PX n, EXAT n, PXAT n, XX, NX, KEEPTTL, nothing for no option),   *)
(* then GET if and only if the read-back flag is set.                      *)
C23_SetEncoding ==
    Encoded("SET") =>
        LET c == ret.frame.command
            text == CASE c.value.t = "Str" -> c.value.s
                      [] c.value.t = "Int" -> C23_Number(c.value.i)
                      [] c.value = SetInput_Float(15) -> "1.5"
                      [] c.value = SetInput_Float(420) -> "42"
            tokens == IF c.option.o \in {"EX", "PX", "EXAT", "PXAT"}
                      THEN <<c.option.o, C23_Number(c.option.n)>>
                      ELSE IF c.option.o = "None" THEN <<>> ELSE <<c.option.o>>
        IN  ret.frame.wire = [cmd |-> "SET",
                              args |-> <<c.key, text>> \o tokens
                                       \o (IF c.get THEN <<"GET">> ELSE <<>>)]

(* SET k v with EX 10 and the read-back flag *)
C23_Witness ==
    /\ Encoded("SET")
    /\ ret.frame.command = [op |-> "SET", key |-> "k", value |-> SetInput_Str("v"),
                             option |-> SetOption("EX", 10), get |-> TRUE]
    /\ ret.frame.wire.args = <<"k", "v", "EX", "10", "GET">>

(* C24: EXPIRE(key, seconds, option) is encoded as [key, seconds] followed *)
(* by exactly one token NX or XX when the option is set and by nothing, no *)
(* empty string either, when it is not; EXPIREAT likewise with NX, XX, GT  *)
(* and LT.                                                                 *)
C24_ExpireEncoding ==
    /\ Encoded("EXPIRE") =>
          LET c == ret.frame.command
          IN  ret.frame.wire =
                [cmd |-> "EXPIRE",
                 args |-> IF c.option \in {"NX", "XX"}
                          THEN <<c.key, C23_Number(c.seconds), c.option>>
                          ELSE <<c.key, C23_Number(c.seconds)>>]
    /\ Encoded("EXPIREAT") =>
          LET c == ret.frame.command
          IN  ret.frame.wire =
                [cmd |-> "EXPIREAT",
                 args |-> IF c.option \in {"NX", "XX", "GT", "LT"}
                          THEN <<c.key, C23_Number(c.timestamp), c.option>>
                          ELSE <<c.key, C23_Number(c.timestamp)>>]

(* an EXPIRE without option was encoded: two arguments *)
C24_Witness ==
    /\ Encoded("EXPIRE")
    /\ ret.frame.command.option = "None"
    /\ ret.frame.wire.args = <<"k", "10">>

(* C25: EXISTS(key, additional_keys) is encoded as [key] followed by the   *)
(* additional keys in their order, duplicates kept: 1 + n arguments.       *)
C25_ExistsEncoding ==
    Encoded("EXISTS") =>
        LET c == ret.frame.command
            args == ret.frame.wire.args
        IN  /\ ret.frame.wire.cmd = "EXISTS"
            /\ Len(args) = 1 + Len(c.additional_keys)
            /\ args[1] = c.key
            /\ \A i \in 1..Len(c.additional_keys) : args[i + 1] = c.additional_keys[i]

(* EXISTS k with the additional keys j and k: the repeated k is kept *)
C25_Witness ==
    /\ Encoded("EXISTS")
    /\ ret.frame.command = [op |-> "EXISTS", key |-> "k", additional_keys |-> <<"j", "k">>]
    /\ ret.frame.wire.args = <<"k", "j", "k">>


(* C26: every DEL request written on a connection carries at least one key *)
(* argument, whatever input Client::del was given.                         *)
C26_DelHasKey ==
    \A c \in DOMAIN conns :
        \A i \in 1..Len(conns[c].written) :
            conns[c].written[i].cmd = "DEL" => Len(conns[c].written[i].args) >= 1


-----------------------------------------------------------------------------
(* Properties of the conversions *)

Converted(fn) == ret.by = fn /\ ret.frame.pc = "start"

(* C27: a SetInput turned into a ScalarValue and back with try_into is the *)
(* SetInput it was; try_into on a Boolean, true or false, and on Null      *)
(* fails with an error message and gives no SetInput.                      *)
C27_SetInputRoundTrip ==
    /\ Converted("into") => ret.frame.out.back = ConvOk(ret.frame.input)
    /\ Converted("try_into") /\ ret.frame.input.t \in {"VBool", "VNull"}
          => /\ ~ret.frame.out.ok
             /\ ret.frame.out.err # ""
             /\ ret.frame.out.val = NoValue

(* try_into was applied to the Boolean false *)
C27_Witness ==
    /\ Converted("try_into")
    /\ ret.frame.input = VBool(FALSE)
    /\ ret.frame.out = ConvErr("Cannot convert Value::VBool to SetValue")

(* a and b are the same number: the same bits when both are written in 65 *)
(* bits, which holds every value of every type                            *)
NumEq(a, b) == Extend(a, 65) = Extend(b, 65)

(* C28: an integer of any of the types i8, i16, i32, i64, u8, u16, u32,    *)
(* u64 converted into a ScalarValue or a SetInput is an Integer whose      *)
(* 64-bit signed value is numerically equal to it, and converting that     *)
(* back to the type gives the original value.                              *)
C28_IntegerPreserved ==
    Converted("from") =>
        LET x == ret.frame.input
            a == ret.frame.out.scalar
            b == ret.frame.out.setinput
        IN  /\ a.t = "VInt" /\ b.t = "Int" /\ a.i = b.i
            /\ a.i.w = 64 /\ a.i.signed
            /\ NumEq(a.i, x)
            /\ a.i.bits \cap (0..(x.w - 1)) = x.bits

(* C30: Display writes a String as its text, an Integer in decimal, a      *)
(* Boolean as true or false and Null as the token null, never as the empty *)
(* string.                                                                 *)
C30_Display ==
    Converted("fmt") =>
        LET v == ret.frame.input
            out == ret.frame.out
        IN  /\ v.t = "VStr" => out = v.s
            /\ v.t = "VInt" => out = C23_Number(v.i)
            /\ v = VBool(TRUE) => out = "true"
            /\ v = VBool(FALSE) => out = "false"
            /\ v.t = "VNull" => out = "null" /\ out # ""

(* Null was displayed *)
C30_Witness == Converted("fmt") /\ ret.frame.input = VNull /\ ret.frame.out = "null"


-----------------------------------------------------------------------------
(* Properties of the iteration of a subscription next to the commands *)

(* the entries of `yielded` for the events of the k-th SET *)
YieldsOf(k) ==
    { i \in 1..Len(sess["ws"].yielded) :
        sess["ws"].yielded[i].some /\ sess["ws"].yielded[i].val.value = VInt(k) }

(* C21: up to the first next() that returns None, the iterator yields the  *)
(* events the server sent for the key in the order it sent them, each      *)
(* once: the i-th value yielded is the i-th event sent.                    *)
C21_InOrderExactlyOnce ==
    LET y == sess["ws"].yielded
        pushed == conns[sess["ws"].sock].pushed
    IN  \A i \in 1..Len(y) :
            y[i].some => /\ i <= Len(pushed)
                         /\ y[i].val = WatchValue(VInt(pushed[i]), "k")

(* C29: nothing orders the watch session against the command session but  *)
(* the server: the event of a SET is yielded after the SET was written,    *)
(* and it may be yielded before the call of set has returned as well as    *)
(* after it.                                                               *)
C29_NoOrderAcrossSessions ==
    \A k \in 1..MaxSets :
        YieldsOf(k) # {} => /\ k \in SetsWritten
                            /\ k <= ncalls

(* both interleavings in one run: the event of the first SET was yielded   *)
(* while set("k", 1) was waiting for its reply, the event of the second    *)
(* one after set("k", 2) had returned "OK"                                 *)
C29_Witness ==
    /\ \E i \in YieldsOf(1) : sess["ws"].yielded[i].returned = 0
    /\ \E j \in YieldsOf(2) : sess["ws"].yielded[j].returned = 2
    /\ Idle /\ ret.by = "set" /\ ret.ok /\ ret.val = VStr("OK") /\ ret.frame.k = 2

-----------------------------------------------------------------------------
(* Properties of the pairing of requests and replies *)

(* C31: provided no read of the history returned an error or zero bytes,   *)
(* an execute on a command session that returns Ok(val) has read, on the   *)
(* connection its request was last written to, the reply to that request   *)
(* (the n-th reply for the n-th request written there), and val is the     *)
(* decoding of the bytes of that reply.                                    *)
C31_ReplyMatchesRequest ==
    [][ ( /\ Running("execute", "recv") /\ ret.by = "send_command" /\ ret.ok
          /\ sess[Top.s].kind # "WatchStream"
          /\ ret'.by = "execute" /\ ret'.ok
          /\ \A c \in DOMAIN conns' : ~conns'[c].noframe )
        => LET w == ret.frame.wsocks
               c == w[Len(w)]
               n == Len(conns[c].written)
           IN  /\ c = sess[Top.s].sock
               /\ conns[c].written[n] = Top.cmd
               /\ conns[c].nread = n - 1 /\ conns'[c].nread = n
               /\ ret'.frame.got.io = "data"
               /\ LET d == DecodeFor(sess[Top.s].kind, ret'.frame.got.bytes)
                  IN  d.ok /\ ret'.val = d.val ]_vars

(* an execute of GET, the second call on the session, returned a value     *)
(* after a failed write and a reconnect, and no read ever came back empty  *)
C31_Witness ==
    /\ ret.by = "execute" /\ ret.ok /\ ret.frame.s = "cmd"
    /\ ret.frame.cmd.cmd = "GET"
    /\ ret.frame.send.rc = 1 /\ Len(ret.frame.send.outs) = 2
    /\ ncalls = 2
    /\ \A c \in DOMAIN conns : ~conns[c].noframe

-----------------------------------------------------------------------------
(* Properties of the teardown with a silent peer *)

-----------------------------------------------------------------------------
(* Properties of a handshake that fails inside reconnect *)

(* C34: when the handshake that reconnect runs on a connection it has just *)
(* opened fails, reconnect returns the error of the handshake in its next  *)
(* step, with no further connection attempt; and the send_command that     *)
(* called it returns that error in its next step, having written its       *)
(* command nowhere but on the old socket, where the write failed.          *)
C34_HandshakeFailureEndsReconnect ==
    [][ /\ ( Running("reconnect", "hs") /\ ret.by = "handshake" /\ ~ret.ok )
           => /\ stack' = Rest
              /\ ret'.by = "reconnect" /\ ~ret'.ok /\ ret'.err = ret.err
              /\ ret'.frame.tries = Top.tries /\ ret'.frame.conns = Top.conns
              /\ conns' = conns /\ sess' = sess
        /\ ( /\ Running("send_command", "reconnected")
             /\ ret.by = "reconnect" /\ ~ret.ok /\ ret.frame.pc = "hs" )
           => /\ stack' = Rest
              /\ ret'.by = "send_command" /\ ~ret'.ok /\ ret'.err = ret.err
              /\ ret'.frame.outs = <<"failed">>
              /\ ret'.frame.wsocks = <<ret.frame.sock0>>
              /\ conns' = conns /\ sess' = sess ]_vars

(* send_command of GET has returned the error of a reconnect that opened a *)
(* connection at its first attempt, nine attempts short of its limit, and  *)
(* the new connection has seen nothing but the HANDSHAKE                   *)
C34_Witness ==
    /\ ret.by = "send_command" /\ ~ret.ok
    /\ ret.frame.cmd.cmd = "GET"
    /\ ret.frame.rcres = "err" /\ ret.frame.rcfails = 0
    /\ sess["cmd"].sock # ret.frame.wsocks[1]
    /\ \A j \in DOMAIN conns[sess["cmd"].sock].written :
          conns[sess["cmd"].sock].written[j].cmd = "HANDSHAKE"

-----------------------------------------------------------------------------
(* Properties of a get_watch that fails *)

(* C35: a get_watch that returns an error leaves no subscription behind,   *)
(* and none of the connections opened during the call has an UNWATCH       *)
(* written on it: the stream it had built was dropped with the fingerprint *)
(* unset, so the drop sent nothing.  While get_watch, or the drop of its   *)
(* unfinished stream, is running, the fingerprint is unset and no UNWATCH  *)
(* is being sent.                                                          *)
C35_FailedGetWatch ==
    /\ (ret.by = "get_watch" /\ ~ret.ok) =>
          /\ Idle /\ sess["ws"] = NoSession
          /\ LET g == IF ret.frame.pc = "connect" THEN ret.frame ELSE ret.frame.pending.frame
             IN  \A c \in (g.nconn0 + 1)..Len(conns) :
                   \A j \in DOMAIN conns[c].written : conns[c].written[j].cmd # "UNWATCH"
          /\ ret.frame.pc # "connect" =>
                ~ret.frame.fp0.some /\ ~ret.frame.unwatch.called
    /\ ( /\ Len(stack) > 0
         /\ \/ stack[1].fn = "get_watch"
            \/ stack[1].fn = "drop" /\ stack[1].pending.by # "none" ) =>
          /\ ~sess["ws"].fingerprint.some
          /\ \A i \in DOMAIN stack :
                stack[i].fn \in {"execute", "send_command"} => stack[i].cmd.cmd # "UNWATCH"

(* get_watch has returned the error of its GETWATCH, sent after a          *)
(* handshake that succeeded on the connection it opened                    *)
C35_Witness ==
    /\ ret.by = "get_watch" /\ ~ret.ok
    /\ ret.frame.pc = "done"
    /\ ret.frame.pending.frame.pc = "registered"
    /\ \E c \in (ret.frame.pending.frame.nconn0 + 1)..Len(conns) :
          \E j \in DOMAIN conns[c].written : conns[c].written[j] = GETWATCH(ret.frame.pending.frame.key)

-----------------------------------------------------------------------------
(* Properties of one step of the iteration *)

(* C36: a call of next() on the subscription takes bytes from the          *)
(* subscription's socket in one read and does nothing else: no request is  *)
(* written on any connection, no connection is opened, the other           *)
(* connections and the command session are untouched, the fingerprint, id  *)
(* and socket of the subscription stay as they were, and the other thread  *)
(* is not disturbed; this whether the step yields an event or ends the     *)
(* sequence.                                                               *)
C36_NextOnlyReads ==
    [][ sess'["ws"].yielded # sess["ws"].yielded =>
          LET c == sess["ws"].sock
              y == sess'["ws"].yielded[Len(sess'["ws"].yielded)]
          IN  /\ sess' = [sess EXCEPT !["ws"].yielded = Append(@, y)]
              /\ Len(conns') = Len(conns)
              /\ \A d \in DOMAIN conns : conns'[d].written = conns[d].written
              /\ \A d \in DOMAIN conns \ {c} : conns'[d] = conns[d]
              /\ y.n \in 0..Len(conns[c].inbox)
              /\ conns'[c] = [conns[c] EXCEPT !.inbox = SubSeq(@, y.n + 1, Len(@))]
              /\ UNCHANGED <<stack, ret, client, ncalls>> ]_vars

(* the subscription has yielded an event and then ended the sequence *)
C36_Witness ==
    /\ Len(sess["ws"].yielded) = 2
    /\ sess["ws"].yielded[1].some /\ sess["ws"].yielded[1].n > 0
    /\ ~sess["ws"].yielded[2].some

-----------------------------------------------------------------------------
(* Properties of Client::new *)

(* C37: when Client::new returns Ok there is a Client, and the socket of   *)
(* its command session is a connection on which a command-mode HANDSHAKE   *)
(* with the session's id was written and answered "OK", and nothing else   *)
(* was written; when it returns an error there is no Client and no         *)
(* session; while it runs there is no Client yet.  So a command other than *)
(* HANDSHAKE is written, on whatever connection, only by a Client whose    *)
(* command session has completed a handshake.                              *)
C37_ClientAfterHandshake ==
    /\ (ret.by = "Client::new" /\ ret.ok) =>
          /\ client = "ready"
          /\ sess["cmd"].sock \in DOMAIN conns
          /\ LET c == conns[sess["cmd"].sock]
             IN  /\ c.hsok /\ c.written # <<>>
                 /\ \A j \in DOMAIN c.written :
                       c.written[j] = HANDSHAKE(sess["cmd"].id, "Command")
    /\ (ret.by = "Client::new" /\ ~ret.ok) =>
          client = "failed" /\ sess["cmd"] = NoSession
    /\ (Len(stack) > 0 /\ stack[1].fn = "Client::new") => client = "none"
    /\ client = "ready" =>
          \E c \in DOMAIN conns : conns[c].owner = "cmd" /\ conns[c].hsok
    /\ (\E c \in DOMAIN conns : \E j \in DOMAIN conns[c].written :
            conns[c].written[j].cmd # "HANDSHAKE") => client = "ready"

(* Client::new has returned Ok after a failed write of its HANDSHAKE and a *)
(* reconnect, and the Client has then written a GET                        *)
C37_Witness ==
    /\ client = "ready"
    /\ Len(conns) >= 2 /\ conns[2].owner = "cmd" /\ conns[2].hsok
    /\ conns[1].written = <<>>
    /\ \E j \in DOMAIN conns[2].written : conns[2].written[j].cmd = "GET"

-----------------------------------------------------------------------------
(* Properties of the error string of a response *)

(* C38: recieve_watchvalue and receive_hset_value of a whole response that *)
(* is well formed and has a non-empty error string return                  *)
(* ServerError(that string) and no value, whatever else the response       *)
(* holds: a payload, attrs with or without a fingerprint, map entries.     *)
C38_ServerErrorFirst ==
    ( /\ ret.by \in {"recieve_watchvalue", "receive_hset_value"}
      /\ WholeFrame(ret.frame) ) =>
        LET flds == Sent(ret.frame)
            errs == { x \in flds : x.f = "err" /\ x.s # "" }
        IN  (errs # {} /\ \A x \in flds : x.f # "invalid") =>
                /\ ~ret.ok /\ ret.val = NoValue
                /\ \E x \in errs : ret.err = ServerError(x.s)

(* recieve_watchvalue has returned the ServerError of a response that has  *)
(* an error string and a payload but no attrs at all                       *)
C38_Witness ==
    /\ ret.by = "recieve_watchvalue" /\ WholeFrame(ret.frame)
    /\ ret.err = ServerError("ERR wrong type")
    /\ \E x \in Sent(ret.frame) : x.f = "value"
    /\ \A x \in Sent(ret.frame) : x.f # "attrs"

====
